---------------------------- MODULE Spec2Model ----------------------------
(***************************************************************************)
(* A model of the raw-http-c connection driver (handleClient), its request *)
(* parser (requestAndHeaderParser, decodeUrl, normalizePath) and its       *)
(* router and response sender (requestHandler, sendResponse).              *)
(*                                                                         *)
(* Bytes are their ASCII codes, byte strings are sequences of bytes, and a *)
(* pointer into the connection buffer is its offset from the buffer start  *)
(* (offset 0 is buffer[0]).  A view (bufferView_t) is an offset and a      *)
(* length.                                                                 *)
(***************************************************************************)
EXTENDS Integers, Sequences, FiniteSets, TLC

(***************************************************************************)
(* Bounds of the model.                                                    *)
(***************************************************************************)
\* size_t is modelled SizeBits wide: arithmetic on it is taken modulo
\* 2^SizeBits (the platform's width does not fit the checker's integers).
SizeBits == 16
\* The largest number of requests the peer puts on one connection.
MaxReqs == 2

RECURSIVE Pow2(_)
Pow2(n) == IF n = 0 THEN 1 ELSE 2 * Pow2(n - 1)
SizeMod == Pow2(SizeBits)

(***************************************************************************)
(* Program constants.                                                      *)
(***************************************************************************)
BUFFER_SIZE == 4096
MAX_REQUEST_LIMIT == 16384
NULL == 0 - 1

(***************************************************************************)
(* String literals of the source, as bytes.                                *)
(***************************************************************************)
CRLF == <<13, 10>>
CRLFCRLF == <<13, 10, 13, 10>>
HTTP11 == <<72, 84, 84, 80, 47, 49, 46, 49>>
API_SLASH == <<47, 97, 112, 105, 47>>
API_ == <<47, 97, 112, 105>>
ContentType_ == <<67, 111, 110, 116, 101, 110, 116, 45, 84, 121, 112, 101>>
ContentLength_ == <<67, 111, 110, 116, 101, 110, 116, 45, 76, 101, 110, 103, 116, 104>>
Connection_ == <<67, 111, 110, 110, 101, 99, 116, 105, 111, 110>>
close_ == <<99, 108, 111, 115, 101>>
GET_ == <<71, 69, 84>>
POST_ == <<80, 79, 83, 84>>
ROOT_ == <<47>>
ECHO_ == <<47, 101, 99, 104, 111>>
Hello_ == <<72, 101, 108, 108, 111>>
RouteNotFound_ == <<82, 111, 117, 116, 101, 32, 78, 111, 116, 32, 70, 111, 117, 110, 100>>
ForbiddenFileRoute_ == <<70, 111, 114, 98, 105, 100, 100, 101, 110, 32, 102, 105, 108, 101, 32, 114, 111, 117, 116, 101>>
MethodUnsupported_ == <<84, 104, 105, 115, 32, 114, 101, 113, 117, 101, 115, 116, 32, 109, 101, 116, 104, 111, 100, 32, 105, 115, 32, 99, 117, 114, 114, 101, 110, 116, 108, 121, 32, 117, 110, 115, 117, 112, 112, 111, 114, 116, 101, 100>>
indexHtml_ == <<105, 110, 100, 101, 120, 46, 104, 116, 109, 108>>

(***************************************************************************)
(* C library functions over the buffer.                                    *)
(***************************************************************************)
Min(a, b) == IF a < b THEN a ELSE b

\* buffer[i]: the driver stores '\0' at buffer[readOffset], the byte after
\* the bytes read.
At(buf, i) == IF i >= 0 /\ i < Len(buf) THEN buf[i + 1] ELSE 0

\* The j-th char of a string literal, '\0' at its end.
LitAt(lit, j) == IF j < Len(lit) THEN lit[j + 1] ELSE 0

tolower(c) == IF c >= 65 /\ c <= 90 THEN c + 32 ELSE c
toupper(c) == IF c >= 97 /\ c <= 122 THEN c - 32 ELSE c
isdigit(c) == c >= 48 /\ c <= 57
isxdigit(c) == isdigit(c) \/ (c >= 65 /\ c <= 70) \/ (c >= 97 /\ c <= 102)

\* strncmp(buf + off, lit, n) == 0: at most n chars are compared, and the
\* comparison ends at the literal's '\0'.
StrncmpEq(buf, off, lit, n) ==
    \A j \in 0..(Min(n, Len(lit) + 1) - 1) : At(buf, off + j) = LitAt(lit, j)

\* strncasecmp(buf + off, lit, n) == 0
StrncasecmpEq(buf, off, lit, n) ==
    \A j \in 0..(Min(n, Len(lit) + 1) - 1) :
        tolower(At(buf, off + j)) = tolower(LitAt(lit, j))

\* strlen(buf + from): the offset of the first '\0' at or after from.
StrEnd(buf, from) ==
    LET nuls == {i \in from..(Len(buf) - 1) : buf[i + 1] = 0}
    IN  IF nuls = {} THEN IF from > Len(buf) THEN from ELSE Len(buf)
        ELSE CHOOSE i \in nuls : \A j \in nuls : i <= j

\* strstr(buf + from, lit): the first match that ends before the '\0'.
StrstrFrom(buf, from, lit, end) ==
    LET hits == {i \in from..(end - Len(lit)) :
                    \A j \in 0..(Len(lit) - 1) : At(buf, i + j) = lit[j + 1]}
    IN  IF hits = {} THEN NULL
        ELSE CHOOSE i \in hits : \A j \in hits : i <= j

strstr(buf, from, lit) == StrstrFrom(buf, from, lit, StrEnd(buf, from))

\* memchr(buf + from, c, n)
RECURSIVE memchr(_, _, _, _)
memchr(buf, from, c, n) ==
    IF n <= 0 THEN NULL
    ELSE IF At(buf, from) = c THEN from
    ELSE memchr(buf, from + 1, c, n - 1)

\* strstr_len(buf + from, lit, len)
RECURSIVE StrstrLenFrom(_, _, _, _)
StrstrLenFrom(buf, i, lit, last) ==
    IF i > last THEN NULL
    ELSE IF StrncmpEq(buf, i, lit, Len(lit)) THEN i
    ELSE StrstrLenFrom(buf, i + 1, lit, last)

strstr_len(buf, from, lit, len) ==
    IF Len(lit) > len THEN NULL
    ELSE StrstrLenFrom(buf, from, lit, from + len - Len(lit))

\* strcasestr_len(buf + from, haystack_len, lit) != NULL
strcasestr_len(buf, from, haystack_len, lit) ==
    IF Len(lit) = 0 THEN TRUE
    ELSE IF Len(lit) > haystack_len THEN FALSE
    ELSE \E i \in 0..(haystack_len - Len(lit)) :
            StrncasecmpEq(buf, from + i, lit, Len(lit))

\* while (p[0] == ' ') p++;
RECURSIVE SkipSpaces(_, _)
SkipSpaces(buf, p) == IF At(buf, p) = 32 THEN SkipSpaces(buf, p + 1) ELSE p

\* while (p < lineEnd && *p == ' ') p++;
RECURSIVE SkipSpacesTo(_, _, _)
SkipSpacesTo(buf, p, lineEnd) ==
    IF p < lineEnd /\ At(buf, p) = 32 THEN SkipSpacesTo(buf, p + 1, lineEnd) ELSE p

View(off, len) == [off |-> off, len |-> len]

\* The bytes a view refers to.
Bytes(buf, v) == [j \in 1..v.len |-> At(buf, v.off + j - 1)]

(***************************************************************************)
(* httpParser.c                                                            *)
(***************************************************************************)
NullView == View(0, 0)

\* initializeHttpInfo: the fields it sets; the views it leaves alone are
\* shown empty.
initializeHttpInfo ==
    [result |-> "OK",
     method |-> NullView, path |-> NullView, version |-> NullView,
     headerCnt |-> 0, headers |-> <<>>,
     contentLength |-> 0, contentType |-> NullView,
     isContentLengthSeen |-> 0, isKeepAlive |-> 1, isApi |-> 0,
     body |-> NullView]

Fail(info, res) == [info EXCEPT !.result = res]

\* checkIfApi
checkIfApi(buf, info) ==
    LET pathLength == info.path.len
        pathStart == info.path.off
    IN  IF pathLength >= 5 /\ StrncmpEq(buf, pathStart, API_SLASH, 5)
        THEN [info EXCEPT !.isApi = 1,
                          !.path = View(pathStart + 4, pathLength - 4)]
        ELSE IF pathLength = 4 /\ StrncmpEq(buf, pathStart, API_, 4)
        THEN [info EXCEPT !.isApi = 1, !.path = View(pathStart, 1)]
        ELSE info

\* The version test of the request line:
\* strncmp(versionStart, "HTTP/1.1", versionLength) != 0 is INVALID_VERSION.
VersionAccepted(buf, versionStart, versionLength) ==
    StrncmpEq(buf, versionStart, HTTP11, versionLength)

\* if (headerStart >= headerEnd) return MISSING_REQUIRED_HEADERS;
NoHeaderBlockAlways(headerStart, headerEnd) == FALSE
NoHeaderBlock(headerStart, headerEnd) == headerStart >= headerEnd

\* The Content-Length digit loop: length = length * 10 + digit in size_t.
RECURSIVE ContentLengthLoop(_, _, _, _, _)
ContentLengthLoop(buf, valStart, valLen, i, length) ==
    IF i >= valLen THEN [ok |-> TRUE, length |-> length]
    ELSE LET c == At(buf, valStart + i)
         IN  IF c >= 48 /\ c <= 57
             THEN ContentLengthLoop(buf, valStart, valLen, i + 1,
                                    (length * 10 + (c - 48)) % SizeMod)
             ELSE IF c # 13 THEN [ok |-> FALSE, length |-> length]
             ELSE [ok |-> TRUE, length |-> length]

\* The special headers: Content-Type, Content-Length, Connection.
SpecialHeader(buf, headerStart, keyLen, valStart, valLen, info) ==
    IF keyLen = 12 /\ StrncasecmpEq(buf, headerStart, ContentType_, keyLen)
    THEN [info EXCEPT !.contentType = View(valStart, valLen)]
    ELSE IF keyLen = 14 /\ StrncasecmpEq(buf, headerStart, ContentLength_, keyLen)
    THEN IF info.isContentLengthSeen # 0
         THEN Fail(info, "INVALID_CONTENT_LENGTH")
         ELSE LET r == ContentLengthLoop(buf, valStart, valLen, 0, 0)
              IN  IF ~r.ok THEN Fail(info, "INVALID_CONTENT_LENGTH")
                  ELSE [info EXCEPT !.contentLength = r.length]
    ELSE IF keyLen = 10 /\ StrncasecmpEq(buf, headerStart, Connection_, keyLen)
    THEN IF strcasestr_len(buf, valStart, valLen, close_)
         THEN [info EXCEPT !.isKeepAlive = 0]
         ELSE info
    ELSE info

\* One turn of the header loop, for the line at headerStart: the httpInfo
\* it leaves, and where the next line starts (NULL: the loop is left, by
\* break or by return).
HeaderLine(buf, headerStart, headerEnd, info) ==
    LET remaining == headerEnd - headerStart
        lineEnd == strstr_len(buf, headerStart, CRLF, remaining)
    IN  IF lineEnd = NULL \/ lineEnd = headerStart
        THEN [info |-> info, next |-> NULL]
        ELSE
        LET lineLength == lineEnd - headerStart
            colon == memchr(buf, headerStart, 58, lineLength)
        IN  IF colon = NULL
            THEN [info |-> Fail(info, "BAD_HEADER_SYNTAX"), next |-> NULL]
            ELSE
            LET keyLen == colon - headerStart
                valStart == SkipSpacesTo(buf, colon + 1, lineEnd)
            IN  IF valStart = lineEnd
                THEN [info |-> Fail(info, "BAD_HEADER_SYNTAX"), next |-> NULL]
                ELSE
                LET valLen == lineEnd - valStart
                    stored == [info EXCEPT !.headers =
                                 Append(@, [key |-> View(headerStart, keyLen),
                                            value |-> View(valStart, valLen)])]
                    special == SpecialHeader(buf, headerStart, keyLen,
                                             valStart, valLen, stored)
                IN  [info |-> special,
                     next |-> IF special.result # "OK" THEN NULL ELSE lineEnd + 2]

\* One turn of while (headerStart < headerEnd) { ... } from the loop's state:
\* nothing changes once the loop has ended (next = NULL after a return,
\* or headerStart >= headerEnd).
HeaderTurn(buf, headerEnd, st) ==
    IF st.next = NULL \/ ~(st.next < headerEnd) THEN st
    ELSE HeaderLine(buf, st.next, headerEnd, st.info)

\* n turns of the loop, the second half run from the state the first half
\* ends in.
RECURSIVE HeaderTurns(_, _, _, _)
HeaderTurns(buf, headerEnd, st, n) ==
    IF n = 0 THEN st
    ELSE IF n = 1 THEN HeaderTurn(buf, headerEnd, st)
    ELSE CHOOSE res \in
             {HeaderTurns(buf, headerEnd, mid, n - (n \div 2)) :
                 mid \in {HeaderTurns(buf, headerEnd, st, n \div 2)}} : TRUE

\* The header loop: while (headerStart < headerEnd) { ... }.  Every turn
\* that does not return moves headerStart past one "\r\n", so the loop
\* ends within as many turns as the block has line ends.
HeaderLoop(buf, headerStart, headerEnd, info) ==
    LET lineEnds == {j \in headerStart..(headerEnd + 1) :
                        At(buf, j) = 13 /\ At(buf, j + 1) = 10}
    IN  HeaderTurns(buf, headerEnd, [info |-> info, next |-> headerStart],
                    Cardinality(lineEnds) + 1).info

\* requestAndHeaderParser(buffer + start, headerEnd, headerArray, &httpInfo)
requestAndHeaderParser(buf, start, headerEnd) ==
    LET info0 == initializeHttpInfo
        firstLineEnd == strstr(buf, start, CRLF)
    IN  IF firstLineEnd = NULL THEN Fail(info0, "BAD_REQUEST_LINE")
        ELSE
        LET firstLineLength == firstLineEnd - start
            methodEnd == memchr(buf, start, 32, firstLineLength)
        IN  IF methodEnd = NULL THEN Fail(info0, "BAD_REQUEST_LINE")
            ELSE
            LET methodLength == methodEnd - start
                info1 == [info0 EXCEPT !.method = View(start, methodLength)]
                pathStart == SkipSpaces(buf, methodEnd)
                len2 == firstLineLength - methodLength - (pathStart - methodEnd)
                pathEnd == memchr(buf, pathStart, 32, len2)
            IN  IF pathEnd = NULL THEN Fail(info1, "BAD_REQUEST_LINE")
                ELSE
                LET pathLength == pathEnd - pathStart
                    info2 == [info1 EXCEPT !.path = View(pathStart, pathLength)]
                    versionStart == SkipSpaces(buf, pathEnd)
                    versionLength == firstLineEnd - versionStart
                    info3 == [info2 EXCEPT
                                !.version = View(versionStart, versionLength)]
                IN  IF ~VersionAccepted(buf, versionStart, versionLength)
                    THEN Fail(info3, "INVALID_VERSION")
                    ELSE
                    LET headerStart == firstLineEnd + 2
                    IN  IF NoHeaderBlock(headerStart, headerEnd)
                        THEN Fail(info3, "MISSING_REQUIRED_HEADERS")
                        ELSE
                        LET looped == HeaderLoop(buf, headerStart, headerEnd, info3)
                        IN  IF looped.result # "OK" THEN looped
                            ELSE
                            LET info4 == [looped EXCEPT
                                            !.headerCnt = Len(looped.headers)]
                            IN  IF At(buf, info4.method.off) = 71
                                   /\ info4.contentLength # 0
                                THEN Fail(info4, "BODY_NOT_ALLOWED")
                                ELSE checkIfApi(buf, info4)

\* bodyParser
bodyParser(bodyStart, info) ==
    [info EXCEPT !.body = View(bodyStart, info.contentLength)]

\* decodeUrl(&httpInfo.path, &httpInfo.decodedPath): the loop over the
\* target's bytes; out is the decoded prefix written so far.
RECURSIVE DecodeLoop(_, _, _)
DecodeLoop(p, i, out) ==
    IF i >= Len(p) THEN [result |-> "OK", path |-> out]
    ELSE IF p[i + 1] = 37
    THEN IF i + 2 >= Len(p) THEN [result |-> "BAD_REQUEST_PATH", path |-> out]
         ELSE IF ~isxdigit(p[i + 2]) \/ ~isxdigit(p[i + 3])
         THEN [result |-> "BAD_REQUEST_PATH", path |-> out]
         ELSE LET high == IF isdigit(p[i + 2]) THEN p[i + 2] - 48
                          ELSE toupper(p[i + 2]) - 65 + 10
                  low == IF isdigit(p[i + 3]) THEN p[i + 3] - 48
                         ELSE toupper(p[i + 3]) - 65 + 10
              IN  IF Len(out) >= Len(p)
                  THEN [result |-> "BAD_REQUEST_PATH", path |-> out]
                  ELSE DecodeLoop(p, i + 3, Append(out, (high * 16 + low) % 256))
    ELSE DecodeLoop(p, i + 1, Append(out, p[i + 1]))

decodeUrlCopies(requestPath) == [result |-> "OK", path |-> requestPath]
decodeUrl(requestPath) == DecodeLoop(requestPath, 0, <<>>)

\* The end of the segment that starts at src: while (src < end && *src != '/').
RECURSIVE SegEnd(_, _)
SegEnd(d, src) ==
    IF src < Len(d) /\ d[src + 1] # 47 THEN SegEnd(d, src + 1) ELSE src

\* Pop: out--; while (out > root + 1 && *(out - 1) != '/') out--;
RECURSIVE PopLoop(_)
PopLoop(o) ==
    IF Len(o) > 1 /\ o[Len(o)] # 47 THEN PopLoop(SubSeq(o, 1, Len(o) - 1)) ELSE o

Pop(o) == PopLoop(SubSeq(o, 1, Len(o) - 1))

\* if (seg_len == 1 && seg_start[0] == '.')
IsDotNever(seg) == FALSE
IsDot(seg) == Len(seg) = 1 /\ seg[1] = 46

\* if (seg_len == 2 && seg_start[0] == '.' && seg_start[1] == '.')
IsDotDot(seg) == Len(seg) = 2 /\ seg[1] = 46 /\ seg[2] = 46

\* normalizePath's loop.  o is the bytes between root and out; cap is
\* normalizedPath->len on entry, which places out_end.
RECURSIVE NormLoop(_, _, _, _)
NormLoop(d, src, o, cap) ==
    IF src >= Len(d) THEN [result |-> "OK", path |-> o]
    ELSE IF d[src + 1] = 47 THEN NormLoop(d, src + 1, o, cap)
    ELSE
    LET segEnd == SegEnd(d, src)
        seg_len == segEnd - src
        seg == SubSeq(d, src + 1, segEnd)
    IN  IF IsDot(seg) THEN NormLoop(d, segEnd, o, cap)
        ELSE IF IsDotDot(seg)
        THEN IF Len(o) <= 1 THEN [result |-> "BAD_REQUEST_PATH", path |-> o]
             ELSE NormLoop(d, segEnd, Pop(o), cap)
        ELSE IF Len(o) > 1 /\ Len(o) + 1 >= cap
        THEN [result |-> "BAD_REQUEST_PATH", path |-> o]
        ELSE
        LET o1 == IF Len(o) > 1 THEN Append(o, 47) ELSE o
        IN  IF Len(o1) + seg_len >= cap
            THEN [result |-> "BAD_REQUEST_PATH", path |-> o1]
            ELSE NormLoop(d, segEnd, o1 \o seg, cap)

normalizePath(decodedPath, cap) == NormLoop(decodedPath, 0, <<47>>, cap)

(***************************************************************************)
(* handlers.c                                                              *)
(***************************************************************************)
HTTP11_SP == <<72, 84, 84, 80, 47, 49, 46, 49, 32>>
CL_HDR == <<13, 10, 67, 111, 110, 116, 101, 110, 116, 45, 76, 101, 110, 103, 116, 104, 58, 32>>
CT_HDR == <<13, 10, 67, 111, 110, 116, 101, 110, 116, 45, 84, 121, 112, 101, 58, 32>>
CONN_HDR == <<13, 10, 67, 111, 110, 110, 101, 99, 116, 105, 111, 110, 58, 32>>
keepAlive_ == <<107, 101, 101, 112, 45, 97, 108, 105, 118, 101>>
ERR_TAIL == <<13, 10, 67, 111, 110, 116, 101, 110, 116, 45, 76, 101, 110, 103, 116, 104, 58, 32, 48, 13, 10, 67, 111, 110, 110, 101, 99, 116, 105, 111, 110, 58, 32, 99, 108, 111, 115, 101, 13, 10, 13, 10>>
ALLOC_500 == <<72, 84, 84, 80, 47, 49, 46, 49, 32, 53, 48, 48, 32, 73, 110, 116, 101, 114, 110, 97, 108, 32, 83, 101, 114, 118, 101, 114, 32, 69, 114, 114, 111, 114, 13, 10, 67, 111, 110, 116, 101, 110, 116, 45, 76, 101, 110, 103, 116, 104, 58, 32, 48, 13, 10, 13, 10>>
T_OK == <<79, 75>>
T_NotFound == <<78, 111, 116, 32, 70, 111, 117, 110, 100>>
T_Forbidden == <<70, 111, 114, 98, 105, 100, 100, 101, 110>>
T_InternalServerError == <<73, 110, 116, 101, 114, 110, 97, 108, 32, 83, 101, 114, 118, 101, 114, 32, 69, 114, 114, 111, 114>>
T_MethodNotAllowed == <<77, 101, 116, 104, 111, 100, 32, 78, 111, 116, 32, 65, 108, 108, 111, 119, 101, 100>>
T_BadRequest == <<66, 97, 100, 32, 82, 101, 113, 117, 101, 115, 116>>
T_BadHeaderSyntax == <<66, 97, 100, 32, 72, 101, 97, 100, 101, 114, 32, 83, 121, 110, 116, 97, 120>>
T_VersionNotSupported == <<72, 84, 84, 80, 32, 86, 101, 114, 115, 105, 111, 110, 32, 78, 111, 116, 32, 83, 117, 112, 112, 111, 114, 116, 101, 100>>
T_InvalidContentLength == <<73, 110, 118, 97, 108, 105, 100, 32, 67, 111, 110, 116, 101, 110, 116, 32, 76, 101, 110, 103, 116, 104>>
T_BodyNotAllowed == <<66, 111, 100, 121, 32, 110, 111, 116, 32, 97, 108, 108, 111, 119, 101, 100>>
T_MissingRequiredHeaders == <<77, 105, 115, 115, 105, 110, 103, 32, 82, 101, 113, 117, 105, 114, 101, 100, 32, 72, 101, 97, 100, 101, 114, 115>>
T_NotImplemented == <<78, 111, 116, 32, 73, 109, 112, 108, 101, 109, 101, 110, 116, 101, 100>>
T_HeaderFieldsTooLarge == <<82, 101, 113, 117, 101, 115, 116, 32, 72, 101, 97, 100, 101, 114, 32, 70, 105, 101, 108, 100, 115, 32, 84, 111, 111, 32, 76, 97, 114, 103, 101>>
T_TooManyHeaders == <<84, 111, 111, 32, 77, 97, 110, 121, 32, 72, 101, 97, 100, 101, 114, 115>>
T_PayloadTooLarge == <<80, 97, 121, 108, 111, 97, 100, 32, 84, 111, 111, 32, 76, 97, 114, 103, 101>>
T_RequestTimeout == <<82, 101, 113, 117, 101, 115, 116, 32, 84, 105, 109, 101, 111, 117, 116>>
T_BadPath == <<66, 97, 100, 32, 80, 97, 116, 104, 32, 70, 111, 114, 32, 82, 101, 113, 117, 101, 115, 116>>
textPlain_ == <<116, 101, 120, 116, 47, 112, 108, 97, 105, 110>>
textHtml_ == <<116, 101, 120, 116, 47, 104, 116, 109, 108>>
textCss_ == <<116, 101, 120, 116, 47, 99, 115, 115>>
appJs_ == <<97, 112, 112, 108, 105, 99, 97, 116, 105, 111, 110, 47, 106, 97, 118, 97, 115, 99, 114, 105, 112, 116>>
imagePng_ == <<105, 109, 97, 103, 101, 47, 112, 110, 103>>
octetStream_ == <<97, 112, 112, 108, 105, 99, 97, 116, 105, 111, 110, 47, 111, 99, 116, 101, 116, 45, 115, 116, 114, 101, 97, 109>>
html_ == <<104, 116, 109, 108>>
css_ == <<99, 115, 115>>
js_ == <<106, 115>>
png_ == <<112, 110, 103>>

\* if (httpInfo->isKeepAlive == 0) response.shouldClose = 1;
ShouldCloseNever(isKeepAlive) == 0
ShouldCloseOf(isKeepAlive) == IF isKeepAlive = 0 THEN 1 ELSE 0

\* initializeResponse, with requestHandler's copy of the keep-alive flag.
initializeResponse(info) ==
    [statusCode |-> 0, statusText |-> <<>>,
     body |-> <<>>, bodyLen |-> 0, bodyAllocated |-> FALSE,
     shouldClose |-> ShouldCloseOf(info.isKeepAlive),
     fileSize |-> 0, fileDescriptor |-> NULL, openedFd |-> NULL,
     contentType |-> textPlain_]

setInternalServerError(response) ==
    [response EXCEPT !.statusCode = 500,
                     !.statusText = T_InternalServerError,
                     !.bodyLen = 0]

\* A response with a malloc'ed body; mallocOk is whether malloc succeeded.
WithBody(response, code, text, bytes, mallocOk) ==
    LET r == [response EXCEPT !.statusCode = code, !.statusText = text,
                              !.bodyLen = Len(bytes)]
    IN  IF ~mallocOk THEN setInternalServerError(r)
        ELSE [r EXCEPT !.body = bytes, !.bodyAllocated = TRUE]

setNotFoundError(response, mallocOk) ==
    WithBody(response, 404, T_NotFound, RouteNotFound_, mallocOk)

setForbiddenAsNotFound(response, mallocOk) ==
    WithBody(response, 404, T_NotFound, RouteNotFound_, mallocOk)

setForbiddenFileRoute(response, mallocOk) ==
    WithBody(response, 403, T_Forbidden, ForbiddenFileRoute_, mallocOk)

apiHandler(response, requestBody, route, mallocOk) ==
    LET r == [response EXCEPT !.contentType = textPlain_]
    IN  CASE route = "ROUTE_ROOT" -> WithBody(r, 200, T_OK, Hello_, mallocOk)
          [] route = "ROUTE_ECHO" -> WithBody(r, 200, T_OK, requestBody, mallocOk)
          [] route = "ROUTE_UNKNOWN_METHOD" ->
                WithBody(r, 405, T_MethodNotAllowed, MethodUnsupported_, mallocOk)
          [] OTHER -> setNotFoundError(r, mallocOk)

\* A C string: the bytes before the first '\0'.
RECURSIVE CStr(_)
CStr(s) == IF s = <<>> \/ s[1] = 0 THEN <<>> ELSE <<s[1]>> \o CStr(Tail(s))

\* strrchr(s, '.'): the index of the last '.', 0 when there is none.
FirstDot(s) ==
    LET dots == {i \in 1..Len(s) : s[i] = 46}
    IN  IF dots = {} THEN 0 ELSE CHOOSE i \in dots : \A j \in dots : i <= j

LastDot(s) ==
    LET dots == {i \in 1..Len(s) : s[i] = 46}
    IN  IF dots = {} THEN 0 ELSE CHOOSE i \in dots : \A j \in dots : j <= i

getFileType(relativePath) ==
    LET dot == LastDot(relativePath)
        ext == SubSeq(relativePath, dot + 1, Len(relativePath))
    IN  IF dot = 0 \/ dot = Len(relativePath) THEN octetStream_
        ELSE IF ext = html_ THEN textHtml_
        ELSE IF ext = css_ THEN textCss_
        ELSE IF ext = js_ THEN appJs_
        ELSE IF ext = png_ THEN imagePng_
        ELSE textPlain_

\* The name fileHandler opens: the normalized path without its '/', read as
\* a C string, or index.html when that is empty.
RelativePath(normalizedPath) ==
    LET rel == CStr(SubSeq(normalizedPath, 2, Len(normalizedPath)))
    IN  IF Len(rel) = 0 THEN indexHtml_ ELSE rel

\* A fileHandler that answers 403 for every file and keeps the descriptor.
fileHandlerKeepsDescriptor(response, normalizedPath, env) ==
    [setForbiddenFileRoute(response, TRUE) EXCEPT !.fileDescriptor = 3,
                                                  !.openedFd = 3]

\* fileHandler.  env is what the allocator and the file system answer:
\* relMalloc, idxRealloc, bodyMalloc (whether each allocation succeeds),
\* open (the errno of openat, or "OK"), fstatOk, regular, size.  openedFd
\* is the descriptor openat returned for as long as nothing has closed it.
fileHandler(response, normalizedPath, env) ==
    IF ~env.relMalloc THEN setInternalServerError(response)
    ELSE IF Len(CStr(SubSeq(normalizedPath, 2, Len(normalizedPath)))) = 0
            /\ ~env.idxRealloc
    THEN setInternalServerError(response)
    ELSE IF env.open \in {"ENOENT", "ENOTDIR"}
    THEN setNotFoundError(response, env.bodyMalloc)
    ELSE IF env.open = "EACCES"
    THEN setForbiddenFileRoute(response, env.bodyMalloc)
    ELSE IF env.open # "OK" THEN setInternalServerError(response)
    ELSE
    LET opened == [response EXCEPT !.openedFd = 3]
        typed == [opened EXCEPT
                    !.contentType = getFileType(RelativePath(normalizedPath))]
        closed == [typed EXCEPT !.openedFd = NULL]
    IN  IF ~env.fstatOk THEN setInternalServerError(closed)
        ELSE IF ~env.regular THEN setForbiddenFileRoute(closed, env.bodyMalloc)
        ELSE [typed EXCEPT !.statusCode = 200, !.statusText = T_OK,
                           !.fileSize = env.size, !.fileDescriptor = 3]

IsMethodByLength(buf, info, lit) == info.method.len = Len(lit)

IsMethod(buf, info, lit) ==
    info.method.len = Len(lit) /\ StrncmpEq(buf, info.method.off, lit, info.method.len)

\* requestHandler(&httpInfo): the routing table.
requestHandler(buf, info, normalizedPath, env) ==
    LET response == initializeResponse(info)
        body == Bytes(buf, info.body)
    IN  IF info.isApi # 0
        THEN IF IsMethod(buf, info, GET_)
             THEN IF normalizedPath = ROOT_
                  THEN apiHandler(response, body, "ROUTE_ROOT", env.bodyMalloc)
                  ELSE apiHandler(response, body, "ROUTE_NOT_FOUND", env.bodyMalloc)
             ELSE IF IsMethod(buf, info, POST_)
             THEN IF normalizedPath = ECHO_
                  THEN apiHandler(response, body, "ROUTE_ECHO", env.bodyMalloc)
                  ELSE apiHandler(response, body, "ROUTE_NOT_FOUND", env.bodyMalloc)
             ELSE apiHandler(response, body, "ROUTE_UNKNOWN_METHOD", env.bodyMalloc)
        ELSE IF IsMethod(buf, info, GET_)
             THEN fileHandler(response, normalizedPath, env)
             ELSE apiHandler(response, body, "ROUTE_UNKNOWN_METHOD", env.bodyMalloc)

\* %d and %zu of snprintf.
RECURSIVE ToDec(_)
ToDec(n) == IF n < 10 THEN <<48 + n>> ELSE ToDec(n \div 10) \o <<48 + (n % 10)>>

\* The status line and headers sendHeaders formats.
FormatHeaders(response) ==
    LET connectionString == IF response.shouldClose # 0 THEN close_ ELSE keepAlive_
        contentLength == IF response.fileDescriptor # NULL
                         THEN response.fileSize ELSE response.bodyLen
    IN  HTTP11_SP \o ToDec(response.statusCode) \o <<32>> \o response.statusText
        \o CL_HDR \o ToDec(contentLength)
        \o CT_HDR \o response.contentType
        \o CONN_HDR \o connectionString \o CRLFCRLF

\* The bytes of the file a response streams (the model's files hold 'F's).
FileBytes(n) == [j \in 1..n |-> 70]

\* The payload sendResponse sends after the headers.
Payload(response) ==
    IF response.fileDescriptor # NULL THEN FileBytes(response.fileSize)
    ELSE SubSeq(response.body, 1, response.bodyLen)

\* sendResponse: what reaches the socket and what it returns.  The retry
\* loops of sendHeaders, sendBody and sendFileStream either deliver all of
\* their bytes or stop at a send error; the error is taken at the loop's
\* first send, so a failed part has delivered none of its bytes.
ShortWrites(len) == {0, len}

SendOutcomes(response) ==
    LET H == Len(FormatHeaders(response))
        P == Len(Payload(response))
        payloadError == IF response.fileDescriptor # NULL
                        THEN "FILE_SEND_ERROR" ELSE "BODY_SEND_ERROR"
    IN  {[result |-> "HEADER_SEND_ERROR", written |-> k] :
             k \in {j \in ShortWrites(H) : j < H}}
        \cup {[result |-> payloadError, written |-> H + k] :
             k \in {j \in ShortWrites(P) : j < P}}
        \cup {[result |-> "Ok", written |-> H + P]}

(***************************************************************************)
(* server.c                                                                *)
(***************************************************************************)
\* error_table, and handleParseError's default for a result it lacks.
ErrorEntryDefault(res) == [code |-> 400, text |-> T_BadRequest]

ErrorEntry(res) ==
    CASE res = "BAD_REQUEST_LINE" -> [code |-> 400, text |-> T_BadRequest]
      [] res = "BAD_HEADER_SYNTAX" -> [code |-> 400, text |-> T_BadHeaderSyntax]
      [] res = "INVALID_VERSION" -> [code |-> 505, text |-> T_VersionNotSupported]
      [] res = "INVALID_CONTENT_LENGTH" ->
            [code |-> 400, text |-> T_InvalidContentLength]
      [] res = "BODY_NOT_ALLOWED" -> [code |-> 400, text |-> T_BodyNotAllowed]
      [] res = "MISSING_REQUIRED_HEADERS" ->
            [code |-> 400, text |-> T_MissingRequiredHeaders]
      [] res = "UNSUPPORTED_TRANSFER_ENCODING" ->
            [code |-> 501, text |-> T_NotImplemented]
      [] res = "UNSUPPORTED_METHOD" -> [code |-> 405, text |-> T_MethodNotAllowed]
      [] res = "HEADER_TOO_LARGE" -> [code |-> 431, text |-> T_HeaderFieldsTooLarge]
      [] res = "TOO_MANY_HEADERS" -> [code |-> 400, text |-> T_TooManyHeaders]
      [] res = "PAYLOAD_TOO_LARGE" -> [code |-> 413, text |-> T_PayloadTooLarge]
      [] res = "REQUEST_TIMEOUT" -> [code |-> 408, text |-> T_RequestTimeout]
      [] res = "BAD_REQUEST_PATH" -> [code |-> 400, text |-> T_BadPath]
      [] OTHER -> [code |-> 400, text |-> T_BadRequest]

\* The response handleParseError formats.
ErrorResponse(res) ==
    HTTP11_SP \o ToDec(ErrorEntry(res).code) \o <<32>> \o ErrorEntry(res).text
    \o ERR_TAIL

(***************************************************************************)
(* The peer: the requests it writes on the connection.                     *)
(***************************************************************************)
B_GET == <<71, 69, 84>>
B_POST == <<80, 79, 83, 84>>
B_DELETE == <<68, 69, 76, 69, 84, 69>>
B_api == <<47, 97, 112, 105, 47>>
B_apiEcho == <<47, 97, 112, 105, 47, 101, 99, 104, 111>>
B_apiX == <<47, 97, 112, 105, 47, 120>>
B_apiBadPct == <<47, 97, 112, 105, 47, 37, 122, 122>>
B_dotdot == <<47, 46, 46>>
B_aCss == <<47, 97, 46, 99, 115, 115>>
B_HTTP11 == <<72, 84, 84, 80, 47, 49, 46, 49>>
B_HTTP10 == <<72, 84, 84, 80, 47, 49, 46, 48>>
B_HTTP1 == <<72, 84, 84, 80, 47, 49>>
B_HTTP20 == <<72, 84, 84, 80, 47, 50, 46, 48>>
B_HTTP110 == <<72, 84, 84, 80, 47, 49, 46, 49, 48>>
B_Host == <<72, 111, 115, 116>>
B_x == <<120>>
B_Connection == <<67, 111, 110, 110, 101, 99, 116, 105, 111, 110>>
B_Close == <<67, 108, 111, 115, 101>>
B_ContentLength == <<67, 111, 110, 116, 101, 110, 116, 45, 76, 101, 110, 103, 116, 104>>
B_contentlength == <<99, 111, 110, 116, 101, 110, 116, 45, 108, 101, 110, 103, 116, 104>>
B_abc == <<97, 98, 99>>
B_2 == <<50>>
B_3 == <<51>>
B_5000 == <<53, 48, 48, 48>>
B_20000 == <<50, 48, 48, 48, 48>>
B_1x == <<49, 120>>
B_1CRx == <<49, 13, 120>>
B_TransferEncoding == <<84, 114, 97, 110, 115, 102, 101, 114, 45, 69, 110, 99, 111, 100, 105, 110, 103>>
B_chunked == <<99, 104, 117, 110, 107, 101, 100>>
B_a == <<97>>
B_b == <<98>>
B_nocolon == <<110, 111, 99, 111, 108, 111, 110>>
B_pctApi == <<47, 37, 54, 49, 112, 105, 47>>
B_escX == <<47, 37, 50, 101, 37, 50, 101, 47, 120>>
B_esc == <<47, 37, 50, 101, 37, 50, 101>>
B_aEscB == <<47, 97, 47, 37, 50, 101, 37, 50, 101, 47, 98>>
B_16334 == <<49, 54, 51, 51, 52>>
B_6 == <<54>>
B_nulBody == <<0, 13, 10, 13, 10, 97>>
B_aCssNulPng == <<47, 97, 46, 99, 115, 115, 37, 48, 48, 46, 112, 110, 103>>
B_4028 == <<52, 48, 50, 56>>
B_body4028 == [j \in 1..4028 |-> 97]
B_host4096 == [j \in 1..4096 |-> 120]
B_4032 == <<52, 48, 51, 50>>
B_body4032 == [j \in 1..4032 |-> 98]

\* A header line "name: value", and a line sent as it is.
Hdr(name, value) == [name |-> name, value |-> value, raw |-> FALSE]
Line(bytes) == [name |-> bytes, value |-> <<>>, raw |-> TRUE]
Req(m, t, v, hs, b) ==
    [method |-> m, target |-> t, version |-> v, headers |-> hs, body |-> b]

HostX == Hdr(B_Host, B_x)
ConnClose == Hdr(B_Connection, B_Close)

\* The size of the header array handleClient allocates.
MAX_HEADERS == 100

\* One Connection header and MAX_HEADERS more lines: one header too many.
TooManyHeaderLines == <<ConnClose>> \o [j \in 1..MAX_HEADERS |-> Hdr(B_a, B_b)]

\* The requests a peer opens a connection with.
Menu ==
    << Req(B_GET, B_api, B_HTTP11, <<>>, <<>>),
       Req(B_GET, B_api, B_HTTP11, <<HostX>>, <<>>),
       Req(B_GET, B_api, B_HTTP11, <<Hdr(B_Connection, B_Close)>>, <<>>),
       Req(B_GET, B_api, B_HTTP10, <<HostX>>, <<>>),
       Req(B_GET, B_api, B_HTTP1, <<HostX>>, <<>>),
       Req(B_GET, B_api, B_HTTP20, <<HostX>>, <<>>),
       Req(B_GET, B_api, B_HTTP110, <<HostX>>, <<>>),
       Req(B_GET, B_api, <<>>, <<HostX>>, <<>>),
       Req(<<>>, B_api, B_HTTP11, <<HostX>>, <<>>),
       Req(B_POST, B_apiEcho, B_HTTP11, <<Hdr(B_ContentLength, B_3)>>, B_abc),
       Req(B_POST, B_apiEcho, B_HTTP11,
           <<Hdr(B_ContentLength, B_2), Hdr(B_contentlength, B_3)>>, B_abc),
       Req(B_POST, B_apiEcho, B_HTTP11,
           <<Hdr(B_ContentLength, ToDec(SizeMod + 3))>>, B_abc),
       Req(B_POST, B_apiEcho, B_HTTP11,
           <<Hdr(B_ContentLength, ToDec(SizeMod - 1))>>, B_abc),
       Req(B_POST, B_apiEcho, B_HTTP11, <<Hdr(B_ContentLength, B_5000)>>, B_abc),
       Req(B_POST, B_apiEcho, B_HTTP11, <<Hdr(B_ContentLength, B_20000)>>, B_abc),
       Req(B_GET, B_aCss, B_HTTP11, <<HostX>>, <<>>),
       Req(B_DELETE, B_apiX, B_HTTP11, <<HostX>>, <<>>),
       Req(B_GET, B_apiBadPct, B_HTTP11, <<HostX>>, <<>>),
       Req(B_GET, B_dotdot, B_HTTP11, <<HostX>>, <<>>),
       Req(B_GET, B_aCss, B_HTTP11, <<Hdr(B_Connection, B_Close)>>, <<>>),
       Req(B_DELETE, B_apiX, B_HTTP11, <<Hdr(B_Connection, B_Close)>>, <<>>),
       Req(B_POST, B_apiEcho, B_HTTP11, <<Hdr(B_ContentLength, B_1x)>>, B_a),
       Req(B_POST, B_apiEcho, B_HTTP11,
           <<ConnClose, Hdr(B_ContentLength, B_1CRx)>>, B_a),
       Req(B_POST, B_apiEcho, B_HTTP11,
           <<ConnClose, Hdr(B_TransferEncoding, B_chunked)>>, <<>>),
       Req(B_GET, B_api, B_HTTP11, TooManyHeaderLines, <<>>),
       Req(B_GET, B_api, B_HTTP11, <<HostX, Line(B_nocolon)>>, <<>>),
       Req(B_GET, B_api, B_HTTP11, <<ConnClose, Hdr(<<>>, B_x)>>, <<>>),
       Req(B_GET, B_pctApi, B_HTTP11, <<ConnClose>>, <<>>),
       Req(B_GET, B_escX, B_HTTP11, <<HostX>>, <<>>),
       Req(B_GET, B_esc, B_HTTP11, <<HostX>>, <<>>),
       Req(B_GET, B_aEscB, B_HTTP11, <<ConnClose>>, <<>>),
       Req(B_POST, B_apiEcho, B_HTTP11, <<Hdr(B_ContentLength, B_16334)>>, B_abc),
       Req(B_POST, B_apiEcho, B_HTTP11,
           <<ConnClose, Hdr(B_ContentLength, B_6)>>, B_nulBody),
       Req(B_GET, B_aCssNulPng, B_HTTP11, <<ConnClose>>, <<>>),
       Req(B_POST, B_apiEcho, B_HTTP11,
           <<ConnClose, Hdr(B_ContentLength, B_4028)>>, B_body4028),
       Req(B_GET, B_api, B_HTTP11, <<ConnClose, Hdr(B_Host, B_host4096)>>, <<>>),
       Req(B_POST, B_apiEcho, B_HTTP11,
           <<ConnClose, Hdr(B_ContentLength, B_4032)>>, B_body4032) >>

\* The requests a peer pipelines behind the first one.
FollowUps == {1, 2}

RECURSIVE SeqsUpTo(_, _)
SeqsUpTo(S, n) ==
    IF n = 0 THEN {<<>>}
    ELSE {<<>>} \cup {<<x>> \o t : x \in S, t \in SeqsUpTo(S, n - 1)}

\* The requests that fill the buffer: the peer sends them on their own.
Alone == {35, 36, 37}

Pipelines ==
    {<<i>> \o t : i \in (1..Len(Menu)) \ Alone,
                  t \in SeqsUpTo(FollowUps, MaxReqs - 1)}
    \cup {<<i>> : i \in Alone}

RECURSIVE HeaderLines(_)
HeaderLines(hs) ==
    IF hs = <<>> THEN <<>>
    ELSE (IF hs[1].raw THEN hs[1].name
          ELSE hs[1].name \o <<58, 32>> \o hs[1].value)
         \o CRLF \o HeaderLines(Tail(hs))

\* The bytes of one request on the wire.
Render(r) ==
    r.method \o <<32>> \o r.target \o <<32>> \o r.version \o CRLF
    \o HeaderLines(r.headers) \o CRLF \o r.body

RECURSIVE RenderAll(_)
RenderAll(rs) ==
    IF rs = <<>> THEN <<>> ELSE Render(Menu[rs[1]]) \o RenderAll(Tail(rs))

\* The position in rs of the request whose first byte is byte off of the
\* wire, 0 when no request starts there.
RECURSIVE ReqIndexAt(_, _, _)
ReqIndexAt(rs, off, i) ==
    IF rs = <<>> \/ off < 0 THEN 0
    ELSE IF off = 0 THEN i
    ELSE ReqIndexAt(Tail(rs), off - Len(Render(Menu[rs[1]])), i + 1)

(***************************************************************************)
(* The connection: handleClient's variables, the socket and the peer.      *)
(***************************************************************************)
VARIABLES
    reqs,              \* the requests the peer writes (positions in Menu)
    wire,              \* their bytes
    delivered,         \* how many bytes of wire read() has returned
    shortReads,        \* how many reads returned less than was pending
    nReads,            \* how many reads returned data
    buffer,            \* buffer[0 .. readOffset)
    bufferSize,
    readOffset,
    parseOffset,
    base,              \* the wire offset of buffer[0]
    pc,                \* where handleClient is
    httpInfo,
    headerSize,
    totalRequestSize,
    decodedPath,
    normalizedPath,
    response,
    sendResult,        \* what the last sendResponse returned
    out,               \* the bytes the socket accepted
    resps,             \* one entry for each response the driver sent
    pathCap,           \* normalizedPath->len as a caller of normalizePath set it
    handlerEnv,        \* what malloc, openat and fstat answer to requestHandler
    mem,               \* what is allocated and open, and whether the buffer moved
    sendLoop           \* the send loop sendResponse is in

vars == <<reqs, wire, delivered, shortReads, nReads, buffer, bufferSize,
          readOffset, parseOffset, base, pc, httpInfo, headerSize,
          totalRequestSize, decodedPath, normalizedPath, response,
          sendResult, out, resps, pathCap, handlerEnv,
          mem, sendLoop>>

\* How many reads may return less than the peer has written.
MaxShortReads == 1

\* What the stack holds where httpInfo.normalizedPath.len lives: the field
\* is read by normalizePath before anything stores to it.
StackGarbage == {0, BUFFER_SIZE}

\* The sizes of the files under the document root.
FileSizes == {0, 3}

\* malloc fails for a size above PTRDIFF_MAX.
MallocCanSucceed(n) == n < SizeMod \div 2

DefaultEnv ==
    [relMalloc |-> TRUE, idxRealloc |-> TRUE, bodyMalloc |-> TRUE,
     open |-> "OK", fstatOk |-> TRUE, regular |-> TRUE, size |-> 0]

ApiEnvs == {[DefaultEnv EXCEPT !.bodyMalloc = b] : b \in BOOLEAN}

FileEnvs ==
    {[DefaultEnv EXCEPT !.relMalloc = FALSE],
     [DefaultEnv EXCEPT !.idxRealloc = FALSE],
     [DefaultEnv EXCEPT !.fstatOk = FALSE]}
    \cup {[DefaultEnv EXCEPT !.open = e, !.bodyMalloc = b] :
            e \in {"ENOENT", "ENOTDIR", "EACCES"}, b \in BOOLEAN}
    \cup {[DefaultEnv EXCEPT !.open = "EIO"]}
    \cup {[DefaultEnv EXCEPT !.regular = FALSE, !.bodyMalloc = b] : b \in BOOLEAN}
    \cup {[DefaultEnv EXCEPT !.size = n] : n \in FileSizes}

\* What the allocator and the file system may answer to one requestHandler.
RouteEnvs(buf, info) ==
    LET envs == IF info.isApi = 0 /\ IsMethod(buf, info, GET_)
                THEN FileEnvs ELSE ApiEnvs
    IN  {e \in envs : e.bodyMalloc => MallocCanSucceed(info.body.len)}

NoResponse ==
    [statusCode |-> 0, statusText |-> <<>>, body |-> <<>>, bodyLen |-> 0,
     bodyAllocated |-> FALSE, shouldClose |-> 0, fileSize |-> 0,
     fileDescriptor |-> NULL, openedFd |-> NULL, contentType |-> <<>>]

\* The allocations and descriptors of the process.  decodedPath and
\* normalizedPath are handleClient's two pointers, body and fd are what the
\* last response owns: "live" and "open" are held, "freed" and "closed" were
\* released and the pointer not reset.  leaks counts allocations whose only
\* pointer was overwritten, wrongFrees the releases of something not held.
\* moved: the buffer was reallocated or shifted since httpInfo was parsed.
NoMem ==
    [decodedPath |-> "NULL", normalizedPath |-> "NULL", body |-> "NULL",
     fd |-> "none", leaks |-> 0, wrongFrees |-> 0, moved |-> FALSE]

\* p = malloc(n), when it succeeds.
malloc(m, p) ==
    [m EXCEPT ![p] = "live", !.leaks = IF m[p] = "live" THEN @ + 1 ELSE @]

\* free(p): nothing for NULL.
freeNothing(m, p) == m

free(m, p) ==
    [m EXCEPT ![p] = IF @ = "live" THEN "freed" ELSE @,
              !.wrongFrees = IF m[p] = "freed" THEN @ + 1 ELSE @]

\* close(response->fileDescriptor)
close(m) ==
    [m EXCEPT !.fd = "closed",
              !.wrongFrees = IF m.fd # "open" THEN @ + 1 ELSE @]

\* What the response requestHandler returned holds: the body it malloc'ed
\* and the descriptor openat returned, unless fileHandler closed it.
Owns(m, r) ==
    [m EXCEPT !.body = IF r.bodyAllocated THEN "live" ELSE "NULL",
              !.fd = IF r.openedFd # NULL THEN "open" ELSE "none"]

\* sendResponse's cleanup label, reached on every path through it.
sendResponseCleanup(m, r) ==
    LET closed == IF r.fileDescriptor # NULL THEN close(m) ELSE m
    IN  IF r.bodyLen > 0 THEN free(closed, "body") ELSE closed

\* handleClient's cleanup label.
cleanup(m) == free(free(m, "normalizedPath"), "decodedPath")

\* After a response on a connection that stays open: both paths are freed
\* and the pointers set to NULL.
FreePaths(m) ==
    [free(free(m, "decodedPath"), "normalizedPath") EXCEPT
        !.decodedPath = "NULL", !.normalizedPath = "NULL"]

\* memmove(buf + dst, buf + src, n)
memmoveNothing(buf, dst, src, n) == buf

memmove(buf, dst, src, n) ==
    [i \in 1..Len(buf) |->
        IF i - 1 >= dst /\ i - 1 < dst + n THEN buf[src + (i - dst)] ELSE buf[i]]

\* if (readOffset < parseOffset + totalRequestSize) break;
BodyArrivedAlways(readOff, parseOff, total) == TRUE

BodyArrived(readOff, parseOff, total) ==
    ~(readOff < (parseOff + total) % SizeMod)

\* No send loop is running.
NoSendLoop ==
    [part |-> "none", len |-> 0, fileLen |-> 0, sentOffset |-> 0,
     remaining |-> 0, errno |-> "0", last |-> "none", result |-> "running"]

Init ==
    /\ reqs \in Pipelines
    /\ wire = RenderAll(reqs)
    /\ delivered = 0
    /\ shortReads = 0
    /\ nReads = 0
    /\ buffer = <<>>
    /\ bufferSize = BUFFER_SIZE
    /\ readOffset = 0
    /\ parseOffset = 0
    /\ base = 0
    /\ pc = "read"
    /\ httpInfo = initializeHttpInfo
    /\ headerSize = 0
    /\ totalRequestSize = 0
    /\ decodedPath = <<>>
    /\ normalizedPath = <<>>
    /\ response = NoResponse
    /\ sendResult = "Ok"
    /\ out = <<>>
    /\ resps = <<>>
    /\ pathCap = 0
    /\ handlerEnv = DefaultEnv
    /\ mem = NoMem
    /\ sendLoop = NoSendLoop

\* The request the driver is at: the one that starts at buffer[parseOffset].
CurReq == ReqIndexAt(reqs, base + parseOffset, 1)

\* The Connection header of a response, read from its bytes.
ConnOf(bytes) ==
    IF StrstrFrom(bytes, 0, CONN_HDR \o close_ \o CRLF, Len(bytes)) # NULL
    THEN "close"
    ELSE IF StrstrFrom(bytes, 0, CONN_HDR \o keepAlive_ \o CRLF, Len(bytes)) # NULL
    THEN "keep-alive"
    ELSE "none"

\* send(socket, bytes, len, 0) accepts k bytes; the driver sent a response
\* of kind kind for request req.
Sent(kind, status, bytes, k, req, result) ==
    /\ out' = out \o SubSeq(bytes, 1, k)
    /\ resps' = Append(resps, [kind |-> kind, status |-> status,
                               conn |-> ConnOf(bytes), req |-> req,
                               total |-> Len(bytes), written |-> k,
                               result |-> result])

\* handleParseError(res, new_socket): one send, its result not looked at.
handleParseError(res, req) ==
    \E k \in ShortWrites(Len(ErrorResponse(res))) :
        Sent("error", ErrorEntry(res).code, ErrorResponse(res), k, req,
             IF k = Len(ErrorResponse(res)) THEN "Ok" ELSE "short")

\* The end of the outer loop's body: the unparsed bytes move to the front.
Shift ==
    LET remaining == readOffset - parseOffset
        shifted == IF remaining > 0 /\ parseOffset > 0
                   THEN memmove(buffer, 0, parseOffset, remaining)
                   ELSE buffer
    IN  /\ buffer' = SubSeq(shifted, 1, remaining)
        /\ readOffset' = remaining
        /\ parseOffset' = 0
        /\ base' = base + parseOffset

\* read() returns k > 0 bytes.
ReadData ==
    /\ pc = "read"
    /\ LET room == bufferSize - 1 - readOffset
           pending == Len(wire) - delivered
       IN  \E k \in {Min(room, pending), 3, pending - 3} :
             /\ k \in 1..Min(room, pending)
             /\ k = Min(room, pending) \/ shortReads < MaxShortReads
             /\ shortReads' = IF k = Min(room, pending) THEN shortReads
                              ELSE shortReads + 1
             /\ buffer' = buffer \o SubSeq(wire, delivered + 1, delivered + k)
             /\ readOffset' = readOffset + k
             /\ delivered' = delivered + k
    /\ nReads' = nReads + 1
    /\ pc' = "frame"
    /\ UNCHANGED <<mem, sendLoop, handlerEnv, pathCap, reqs, wire, bufferSize, parseOffset, base, httpInfo,
                   headerSize, totalRequestSize, decodedPath, normalizedPath,
                   response, sendResult, out, resps>>

\* read() returns 0: the peer closed, or there was no room to read into.
ReadEOF ==
    /\ pc = "read"
    /\ delivered = Len(wire) \/ bufferSize - 1 - readOffset = 0
    /\ pc' = "closed"
    /\ mem' = cleanup(mem)
    /\ UNCHANGED <<sendLoop, handlerEnv, pathCap, reqs, wire, delivered, shortReads, nReads, buffer,
                   bufferSize, readOffset, parseOffset, base, httpInfo,
                   headerSize, totalRequestSize, decodedPath, normalizedPath,
                   response, sendResult, out, resps>>

\* read() fails with EAGAIN: the receive timeout expired.
ReadTimeout ==
    /\ pc = "read"
    /\ handleParseError("REQUEST_TIMEOUT", 0)
    /\ pc' = "closed"
    /\ mem' = cleanup(mem)
    /\ UNCHANGED <<sendLoop, handlerEnv, pathCap, reqs, wire, delivered, shortReads, nReads, buffer,
                   bufferSize, readOffset, parseOffset, base, httpInfo,
                   headerSize, totalRequestSize, decodedPath, normalizedPath,
                   response, sendResult>>

\* read() fails with another errno.
ReadError ==
    /\ pc = "read"
    /\ pc' = "closed"
    /\ mem' = cleanup(mem)
    /\ UNCHANGED <<sendLoop, handlerEnv, pathCap, reqs, wire, delivered, shortReads, nReads, buffer,
                   bufferSize, readOffset, parseOffset, base, httpInfo,
                   headerSize, totalRequestSize, decodedPath, normalizedPath,
                   response, sendResult, out, resps>>

\* headerEnd = strstr(buffer + parseOffset, "\r\n\r\n")
HeaderEnd == strstr(buffer, parseOffset, CRLFCRLF)

\* The inner loop finds no "\r\n\r\n" and breaks; the buffer is shifted.
FrameIncomplete ==
    /\ pc = "frame"
    /\ HeaderEnd = NULL
    /\ Shift
    /\ pc' = "read"
    /\ mem' = [mem EXCEPT !.moved = @ \/ parseOffset > 0]
    /\ UNCHANGED <<sendLoop, handlerEnv, pathCap, reqs, wire, delivered, shortReads, nReads, bufferSize,
                   httpInfo, headerSize, totalRequestSize, decodedPath,
                   normalizedPath, response, sendResult, out, resps>>

\* The parser rejects the request: error response, then cleanup.
FrameParseError ==
    /\ pc = "frame"
    /\ HeaderEnd # NULL
    /\ LET info == requestAndHeaderParser(buffer, parseOffset, HeaderEnd + 2)
       IN  /\ info.result # "OK"
           /\ httpInfo' = info
           /\ handleParseError(info.result, CurReq)
    /\ pc' = "closed"
    /\ mem' = cleanup([mem EXCEPT !.moved = FALSE])
    /\ UNCHANGED <<sendLoop, handlerEnv, pathCap, reqs, wire, delivered, shortReads, nReads, buffer,
                   bufferSize, readOffset, parseOffset, base, headerSize,
                   totalRequestSize, decodedPath, normalizedPath, response,
                   sendResult>>

\* The parser accepts the request; the driver computes its size.
FrameParsed ==
    /\ pc = "frame"
    /\ HeaderEnd # NULL
    /\ LET info == requestAndHeaderParser(buffer, parseOffset, HeaderEnd + 2)
           hs == (HeaderEnd - parseOffset) + 4
       IN  /\ info.result = "OK"
           /\ httpInfo' = info
           /\ headerSize' = hs
           /\ totalRequestSize' = (hs + info.contentLength) % SizeMod
    /\ pc' = "size"
    /\ mem' = [mem EXCEPT !.moved = FALSE]
    /\ UNCHANGED <<sendLoop, handlerEnv, pathCap, reqs, wire, delivered, shortReads, nReads, buffer,
                   bufferSize, readOffset, parseOffset, base, decodedPath,
                   normalizedPath, response, sendResult, out, resps>>

\* The parser stores header number headerCnt at headers[headerCnt] with no
\* test of headerCnt: the store for the line after MAX_HEADERS lines is past
\* the end of headerArray, in the heap.  Either the process is killed for
\* it, or the store lands and the parse goes on (FrameParsed and
\* FrameParseError).
HeaderArrayOverrun ==
    /\ pc = "frame"
    /\ HeaderEnd # NULL
    /\ Len(requestAndHeaderParser(buffer, parseOffset, HeaderEnd + 2).headers)
          > MAX_HEADERS
    /\ pc' = "crashed"
    /\ UNCHANGED <<mem, sendLoop, handlerEnv, pathCap, reqs, wire, delivered, shortReads, nReads, buffer,
                   bufferSize, readOffset, parseOffset, base, httpInfo,
                   headerSize, totalRequestSize, decodedPath, normalizedPath,
                   response, sendResult, out, resps>>

\* totalRequestSize > bufferSize and > MAX_REQUEST_LIMIT: 413, then cleanup.
PayloadTooLarge ==
    /\ pc = "size"
    /\ totalRequestSize > bufferSize
    /\ totalRequestSize > MAX_REQUEST_LIMIT
    /\ handleParseError("PAYLOAD_TOO_LARGE", CurReq)
    /\ pc' = "closed"
    /\ mem' = cleanup(mem)
    /\ UNCHANGED <<sendLoop, handlerEnv, pathCap, reqs, wire, delivered, shortReads, nReads, buffer,
                   bufferSize, readOffset, parseOffset, base, httpInfo,
                   headerSize, totalRequestSize, decodedPath, normalizedPath,
                   response, sendResult>>

\* realloc(buffer, totalRequestSize + 1) fails: a literal 500, then cleanup.
ReallocFail ==
    /\ pc = "size"
    /\ totalRequestSize > bufferSize
    /\ totalRequestSize <= MAX_REQUEST_LIMIT
    /\ \E k \in ShortWrites(Len(ALLOC_500)) :
          Sent("alloc500", 500, ALLOC_500, k, CurReq,
               IF k = Len(ALLOC_500) THEN "Ok" ELSE "short")
    /\ pc' = "closed"
    /\ mem' = cleanup(mem)
    /\ UNCHANGED <<sendLoop, handlerEnv, pathCap, reqs, wire, delivered, shortReads, nReads, buffer,
                   bufferSize, readOffset, parseOffset, base, httpInfo,
                   headerSize, totalRequestSize, decodedPath, normalizedPath,
                   response, sendResult>>

\* bufferSize after the resize step, when realloc succeeds.
Grown == IF totalRequestSize > bufferSize THEN totalRequestSize + 1 ELSE bufferSize

\* The body is not all read yet: break, shift, read again.
BodyIncomplete ==
    /\ pc = "size"
    /\ totalRequestSize > bufferSize => totalRequestSize <= MAX_REQUEST_LIMIT
    /\ ~BodyArrived(readOffset, parseOffset, totalRequestSize)
    /\ bufferSize' = Grown
    /\ Shift
    /\ pc' = "read"
    /\ mem' = [mem EXCEPT !.moved = @ \/ totalRequestSize > bufferSize
                                   \/ parseOffset > 0]
    /\ UNCHANGED <<sendLoop, handlerEnv, pathCap, reqs, wire, delivered, shortReads, nReads, httpInfo,
                   headerSize, totalRequestSize, decodedPath, normalizedPath,
                   response, sendResult, out, resps>>

\* The whole request is in the buffer: bodyParser sets the body view.
BodyReady ==
    /\ pc = "size"
    /\ totalRequestSize > bufferSize => totalRequestSize <= MAX_REQUEST_LIMIT
    /\ BodyArrived(readOffset, parseOffset, totalRequestSize)
    /\ bufferSize' = Grown
    /\ httpInfo' = bodyParser(parseOffset + headerSize, httpInfo)
    /\ pc' = "decode"
    /\ mem' = [mem EXCEPT !.moved = @ \/ totalRequestSize > bufferSize]
    /\ UNCHANGED <<sendLoop, handlerEnv, pathCap, reqs, wire, delivered, shortReads, nReads, buffer,
                   readOffset, parseOffset, base, headerSize,
                   totalRequestSize, decodedPath, normalizedPath, response,
                   sendResult, out, resps>>

\* malloc(httpInfo.path.len) fails: cleanup, nothing is sent.
DecodeMallocFail ==
    /\ pc = "decode"
    /\ pc' = "closed"
    /\ mem' = cleanup(mem)
    /\ UNCHANGED <<sendLoop, handlerEnv, pathCap, reqs, wire, delivered, shortReads, nReads, buffer,
                   bufferSize, readOffset, parseOffset, base, httpInfo,
                   headerSize, totalRequestSize, decodedPath, normalizedPath,
                   response, sendResult, out, resps>>

\* decodeUrl rejects the target.
DecodeError ==
    /\ pc = "decode"
    /\ LET d == decodeUrl(Bytes(buffer, httpInfo.path))
       IN  /\ d.result # "OK"
           /\ decodedPath' = d.path
           /\ handleParseError(d.result, CurReq)
    /\ pc' = "closed"
    /\ mem' = cleanup(malloc(mem, "decodedPath"))
    /\ UNCHANGED <<sendLoop, handlerEnv, pathCap, reqs, wire, delivered, shortReads, nReads, buffer,
                   bufferSize, readOffset, parseOffset, base, httpInfo,
                   headerSize, totalRequestSize, normalizedPath, response,
                   sendResult>>

\* decodeUrl succeeds.
Decoded ==
    /\ pc = "decode"
    /\ LET d == decodeUrl(Bytes(buffer, httpInfo.path))
       IN  /\ d.result = "OK"
           /\ decodedPath' = d.path
    /\ pc' = "normalize"
    /\ mem' = malloc(mem, "decodedPath")
    /\ UNCHANGED <<sendLoop, handlerEnv, pathCap, reqs, wire, delivered, shortReads, nReads, buffer,
                   bufferSize, readOffset, parseOffset, base, httpInfo,
                   headerSize, totalRequestSize, normalizedPath, response,
                   sendResult, out, resps>>

\* malloc(httpInfo.decodedPath.len) fails: cleanup, nothing is sent.
NormalizeMallocFail ==
    /\ pc = "normalize"
    /\ pc' = "closed"
    /\ mem' = cleanup(mem)
    /\ UNCHANGED <<sendLoop, handlerEnv, pathCap, reqs, wire, delivered, shortReads, nReads, buffer,
                   bufferSize, readOffset, parseOffset, base, httpInfo,
                   headerSize, totalRequestSize, decodedPath, normalizedPath,
                   response, sendResult, out, resps>>

\* httpInfo.normalizedPath.data is set to the function normalizePath, so
\* normalizePath's first store, *root = '/', writes into the program's
\* code.  Where the code is not writable the process is killed there.
NormalizeCrash ==
    /\ pc = "normalize"
    /\ pc' = "crashed"
    /\ mem' = malloc(mem, "normalizedPath")
    /\ UNCHANGED <<sendLoop, handlerEnv, pathCap, reqs, wire, delivered, shortReads, nReads, buffer,
                   bufferSize, readOffset, parseOffset, base, httpInfo,
                   headerSize, totalRequestSize, decodedPath, normalizedPath,
                   response, sendResult, out, resps>>

\* Where the store lands, normalizePath runs with out_end placed by the
\* field's stale value, and rejects the path.
NormalizeError ==
    /\ pc = "normalize"
    /\ \E cap \in StackGarbage :
          LET n == normalizePath(decodedPath, cap)
          IN  /\ n.result # "OK"
              /\ normalizedPath' = n.path
              /\ handleParseError(n.result, CurReq)
    /\ pc' = "closed"
    /\ mem' = cleanup(malloc(mem, "normalizedPath"))
    /\ UNCHANGED <<sendLoop, handlerEnv, pathCap, reqs, wire, delivered, shortReads, nReads, buffer,
                   bufferSize, readOffset, parseOffset, base, httpInfo,
                   headerSize, totalRequestSize, decodedPath, response,
                   sendResult>>

\* ... or accepts it.
Normalized ==
    /\ pc = "normalize"
    /\ \E cap \in StackGarbage :
          LET n == normalizePath(decodedPath, cap)
          IN  /\ n.result = "OK"
              /\ normalizedPath' = n.path
    /\ pc' = "route"
    /\ mem' = malloc(mem, "normalizedPath")
    /\ UNCHANGED <<sendLoop, handlerEnv, pathCap, reqs, wire, delivered, shortReads, nReads, buffer,
                   bufferSize, readOffset, parseOffset, base, httpInfo,
                   headerSize, totalRequestSize, decodedPath, response,
                   sendResult, out, resps>>

\* response = requestHandler(&httpInfo); sendResponse(new_socket, &response);
\* if (response.shouldClose == 1) goto cleanup; otherwise the paths are
\* freed and parseOffset moves past the request.
Route ==
    /\ pc = "route"
    /\ \E env \in RouteEnvs(buffer, httpInfo) :
          LET r == requestHandler(buffer, httpInfo, normalizedPath, env)
              bytes == FormatHeaders(r) \o Payload(r)
          IN  /\ response' = r
              /\ \E o \in SendOutcomes(r) :
                    /\ sendResult' = o.result
                    /\ Sent("routed", r.statusCode, bytes, o.written, CurReq,
                            o.result)
              /\ IF r.shouldClose = 1
                 THEN /\ pc' = "closed"
                      /\ mem' = cleanup(sendResponseCleanup(Owns(mem, r), r))
                      /\ UNCHANGED <<parseOffset, decodedPath, normalizedPath>>
                 ELSE /\ pc' = "frame"
                      /\ mem' = FreePaths(sendResponseCleanup(Owns(mem, r), r))
                      /\ parseOffset' = (parseOffset + totalRequestSize) % SizeMod
                      /\ decodedPath' = <<>>
                      /\ normalizedPath' = <<>>
    /\ UNCHANGED <<sendLoop, handlerEnv, pathCap, reqs, wire, delivered, shortReads, nReads, buffer,
                   bufferSize, readOffset, base, httpInfo, headerSize,
                   totalRequestSize>>

Next ==
    \/ ReadData
    \/ ReadEOF
    \/ ReadTimeout
    \/ ReadError
    \/ FrameIncomplete
    \/ FrameParseError
    \/ FrameParsed
    \/ HeaderArrayOverrun
    \/ PayloadTooLarge
    \/ ReallocFail
    \/ BodyIncomplete
    \/ BodyReady
    \/ DecodeMallocFail
    \/ DecodeError
    \/ Decoded
    \/ NormalizeMallocFail
    \/ NormalizeCrash
    \/ NormalizeError
    \/ Normalized
    \/ Route

Spec == Init /\ [][Next]_vars

(***************************************************************************)
(* decodeUrl and normalizePath on their own: a caller hands decodeUrl a    *)
(* target and normalizePath the decoded path, with room for the output.    *)
(***************************************************************************)
\* The most segments a path has, and the most bytes an encoded target has.
MaxSegs == 6
MaxTargetLen == 4

\* The segments paths are made of: empty, ".", ".." and "a".
PathSegs == {<<>>, <<46>>, <<46, 46>>, <<97>>}

\* The bytes encoded targets are made of: '%', '/', '2', 'E', 'f', 'g'.
TargetBytes == {37, 47, 50, 69, 102, 103}

RECURSIVE JoinSegs(_)
JoinSegs(ss) ==
    IF Len(ss) = 1 THEN ss[1] ELSE ss[1] \o <<47>> \o JoinSegs(Tail(ss))

RECURSIVE TuplesOf(_, _)
TuplesOf(S, n) ==
    IF n = 0 THEN {<<>>} ELSE {<<x>> \o t : x \in S, t \in TuplesOf(S, n - 1)}

Targets ==
    {JoinSegs(ss) : ss \in UNION {TuplesOf(PathSegs, n) : n \in 1..MaxSegs}}
    \cup UNION {TuplesOf(TargetBytes, n) : n \in 0..MaxTargetLen}

\* normalizedPath->len on entry: the size of the buffer handleClient
\* allocates for the output (decodedPath.len), one more, or ample room.
PathCaps(d) == {Len(d), Len(d) + 1, BUFFER_SIZE}

PathInit ==
    /\ reqs = <<>>
    /\ wire = <<>>
    /\ delivered = 0
    /\ shortReads = 0
    /\ nReads = 0
    /\ buffer \in Targets
    /\ bufferSize = BUFFER_SIZE
    /\ readOffset = Len(buffer)
    /\ parseOffset = 0
    /\ base = 0
    /\ pc = "path"
    /\ httpInfo = [initializeHttpInfo EXCEPT !.path = View(0, Len(buffer))]
    /\ headerSize = 0
    /\ totalRequestSize = 0
    /\ decodedPath = <<>>
    /\ normalizedPath = <<>>
    /\ response = NoResponse
    /\ sendResult = "Ok"
    /\ out = <<>>
    /\ resps = <<>>
    /\ pathCap = 0
    /\ handlerEnv = DefaultEnv
    /\ mem = NoMem
    /\ sendLoop = NoSendLoop

\* decodeUrl(&httpInfo.path, &httpInfo.decodedPath) returns OK.
PathDecoded ==
    /\ pc = "path"
    /\ LET d == decodeUrl(Bytes(buffer, httpInfo.path))
       IN  /\ d.result = "OK"
           /\ decodedPath' = d.path
    /\ pc' = "path_decoded"
    /\ UNCHANGED <<mem, sendLoop, handlerEnv, pathCap, reqs, wire, delivered, shortReads, nReads, buffer,
                   bufferSize, readOffset, parseOffset, base, httpInfo,
                   headerSize, totalRequestSize, normalizedPath, response,
                   sendResult, out, resps>>

\* decodeUrl returns BAD_REQUEST_PATH.
PathDecodeError ==
    /\ pc = "path"
    /\ LET d == decodeUrl(Bytes(buffer, httpInfo.path))
       IN  /\ d.result # "OK"
           /\ decodedPath' = d.path
           /\ httpInfo' = Fail(httpInfo, d.result)
    /\ pc' = "path_bad_target"
    /\ UNCHANGED <<mem, sendLoop, handlerEnv, pathCap, reqs, wire, delivered, shortReads, nReads, buffer,
                   bufferSize, readOffset, parseOffset, base, headerSize,
                   totalRequestSize, normalizedPath, response, sendResult,
                   out, resps>>

\* normalizePath(&httpInfo.decodedPath, &httpInfo.normalizedPath) returns OK.
PathNormalized ==
    /\ pc = "path_decoded"
    /\ \E cap \in PathCaps(decodedPath) :
          LET n == normalizePath(decodedPath, cap)
          IN  /\ n.result = "OK"
              /\ normalizedPath' = n.path
              /\ pathCap' = cap
    /\ pc' = "path_normalized"
    /\ UNCHANGED <<mem, sendLoop, handlerEnv, reqs, wire, delivered, shortReads, nReads, buffer,
                   bufferSize, readOffset, parseOffset, base, httpInfo,
                   headerSize, totalRequestSize, decodedPath, response,
                   sendResult, out, resps>>

\* normalizePath returns BAD_REQUEST_PATH.
PathNormalizeError ==
    /\ pc = "path_decoded"
    /\ \E cap \in PathCaps(decodedPath) :
          LET n == normalizePath(decodedPath, cap)
          IN  /\ n.result # "OK"
              /\ normalizedPath' = n.path
              /\ httpInfo' = Fail(httpInfo, n.result)
              /\ pathCap' = cap
    /\ pc' = "path_bad_path"
    /\ UNCHANGED <<mem, sendLoop, handlerEnv, reqs, wire, delivered, shortReads, nReads, buffer,
                   bufferSize, readOffset, parseOffset, base, headerSize,
                   totalRequestSize, decodedPath, response, sendResult,
                   out, resps>>

PathNext ==
    \/ PathDecoded
    \/ PathDecodeError
    \/ PathNormalized
    \/ PathNormalizeError

PathSpec == PathInit /\ [][PathNext]_vars

(***************************************************************************)
(* requestHandler on its own: every routing input, every answer of the     *)
(* allocator and the file system.                                          *)
(***************************************************************************)
\* Methods: GET and POST, and strings that differ from them in case or length.
HandlerMethods ==
    {GET_, POST_, B_DELETE, <<103, 101, 116>>, <<71, 69>>, <<71, 69, 84, 83>>, <<112, 111, 115, 116>>}

\* Normalized paths: the API routes and their near misses, file names with
\* each kind of extension, and names holding a '\0'.
HandlerPaths ==
    {<<47>>,
     <<47, 101, 99, 104, 111>>,
     <<47, 69, 99, 104, 111>>,
     <<47, 101, 99, 104>>,
     <<47, 101, 99, 104, 111, 47>>,
     <<47, 120>>,
     <<47, 97, 46, 104, 116, 109, 108>>,
     <<47, 97, 46, 99, 115, 115>>,
     <<47, 97, 46, 106, 115>>,
     <<47, 97, 46, 112, 110, 103>>,
     <<47, 97, 46, 72, 84, 77, 76>>,
     <<47, 97>>,
     <<47, 97, 46>>,
     <<47, 97, 46, 116, 120, 116>>,
     <<47, 97, 46, 98, 47, 99>>,
     <<47, 97, 46, 106, 115, 46, 112, 110, 103>>,
     <<47, 46, 99, 115, 115>>,
     <<47, 97, 46, 106, 115, 0, 46, 112, 110, 103>>,
     <<47, 0, 120>>}

\* Request bodies.
HandlerBodies == {<<>>, <<97, 98>>}

HandlerInit ==
    /\ reqs = <<>>
    /\ wire = <<>>
    /\ delivered = 0
    /\ shortReads = 0
    /\ nReads = 0
    /\ \E m \in HandlerMethods, body \in HandlerBodies,
          api \in {0, 1}, keep \in {0, 1} :
          /\ buffer = m \o body
          /\ httpInfo = [initializeHttpInfo EXCEPT
                            !.method = View(0, Len(m)),
                            !.body = View(Len(m), Len(body)),
                            !.contentLength = Len(body),
                            !.isApi = api, !.isKeepAlive = keep]
    /\ bufferSize = BUFFER_SIZE
    /\ readOffset = Len(buffer)
    /\ parseOffset = 0
    /\ base = 0
    /\ pc = "handler"
    /\ headerSize = 0
    /\ totalRequestSize = 0
    /\ decodedPath = <<>>
    /\ normalizedPath \in HandlerPaths
    /\ response = NoResponse
    /\ sendResult = "Ok"
    /\ out = <<>>
    /\ resps = <<>>
    /\ pathCap = 0
    /\ handlerEnv = DefaultEnv
    /\ mem = NoMem
    /\ sendLoop = NoSendLoop

\* requestHandler takes the static file branch: fileHandler runs.
HandlerGoesToFile == httpInfo.isApi = 0 /\ IsMethod(buffer, httpInfo, GET_)

\* response = requestHandler(&httpInfo), answered by apiHandler.
HandlerApi ==
    /\ pc = "handler"
    /\ ~HandlerGoesToFile
    /\ \E env \in RouteEnvs(buffer, httpInfo) :
          /\ handlerEnv' = env
          /\ response' = requestHandler(buffer, httpInfo, normalizedPath, env)
          /\ mem' = Owns(mem, requestHandler(buffer, httpInfo, normalizedPath, env))
    /\ pc' = "handled"
    /\ UNCHANGED <<sendLoop, pathCap, reqs, wire, delivered, shortReads, nReads, buffer,
                   bufferSize, readOffset, parseOffset, base, httpInfo,
                   headerSize, totalRequestSize, decodedPath, normalizedPath,
                   sendResult, out, resps>>

\* response = requestHandler(&httpInfo), answered by fileHandler.
HandlerFile ==
    /\ pc = "handler"
    /\ HandlerGoesToFile
    /\ \E env \in RouteEnvs(buffer, httpInfo) :
          /\ handlerEnv' = env
          /\ response' = requestHandler(buffer, httpInfo, normalizedPath, env)
          /\ mem' = Owns(mem, requestHandler(buffer, httpInfo, normalizedPath, env))
    /\ pc' = "handled"
    /\ UNCHANGED <<sendLoop, pathCap, reqs, wire, delivered, shortReads, nReads, buffer,
                   bufferSize, readOffset, parseOffset, base, httpInfo,
                   headerSize, totalRequestSize, decodedPath, normalizedPath,
                   sendResult, out, resps>>

\* sendResponse(new_socket, &response): the headers and the payload go to
\* the socket as far as it takes them, then the cleanup label runs.
HandlerSend ==
    /\ pc = "handled"
    /\ \E o \in SendOutcomes(response) :
          /\ sendResult' = o.result
          /\ Sent("routed", response.statusCode,
                  FormatHeaders(response) \o Payload(response), o.written, 0,
                  o.result)
    /\ mem' = sendResponseCleanup(mem, response)
    /\ pc' = "sent"
    /\ UNCHANGED <<sendLoop, handlerEnv, pathCap, reqs, wire, delivered,
                   shortReads, nReads, buffer, bufferSize, readOffset,
                   parseOffset, base, httpInfo, headerSize, totalRequestSize,
                   decodedPath, normalizedPath, response>>

HandlerNext ==
    \/ HandlerApi
    \/ HandlerFile
    \/ HandlerSend

HandlerSpec == HandlerInit /\ [][HandlerNext]_vars

(***************************************************************************)
(* The send loops of sendHeaders, sendBody and sendFileStream on their     *)
(* own: buffer is responseBuffer (for a file, the bytes the file had at    *)
(* fstat), out is what the socket took.                                    *)
(***************************************************************************)
\* The most bytes one loop has to send.
MaxSendLen == 3

\* The bytes to send: all different, so that their order shows.
SendBytes(n) == [j \in 1..n |-> 64 + j]

SendInit ==
    /\ reqs = <<>>
    /\ wire = <<>>
    /\ delivered = 0
    /\ shortReads = 0
    /\ nReads = 0
    /\ bufferSize = BUFFER_SIZE
    /\ readOffset = 0
    /\ parseOffset = 0
    /\ base = 0
    /\ pc = "send"
    /\ httpInfo = initializeHttpInfo
    /\ headerSize = 0
    /\ totalRequestSize = 0
    /\ decodedPath = <<>>
    /\ normalizedPath = <<>>
    /\ response = NoResponse
    /\ sendResult = "Ok"
    /\ out = <<>>
    /\ resps = <<>>
    /\ pathCap = 0
    /\ handlerEnv = DefaultEnv
    /\ mem = NoMem
    /\ \E part \in {"headers", "body", "file"}, n \in 0..MaxSendLen,
          fileLen \in 0..MaxSendLen :
          /\ part # "file" => fileLen = n
          /\ part = "headers" => n > 0
          /\ buffer = SendBytes(n)
          /\ sendLoop = [part |-> part, len |-> n, fileLen |-> fileLen,
                         sentOffset |-> 0, remaining |-> n, errno |-> "0",
                         last |-> "none", result |-> "running"]

\* The loop is at its send (or sendfile) call: while (remaining > 0).
AtSend == pc = "send" /\ sendLoop.result = "running" /\ sendLoop.remaining > 0

\* The bytes the call can take now: the rest of the buffer, or of the file.
Sendable ==
    IF sendLoop.part = "file"
    THEN Min(sendLoop.remaining, sendLoop.fileLen - sendLoop.sentOffset)
    ELSE sendLoop.remaining

\* The error the loop returns.
SendErrorOf(part) ==
    CASE part = "headers" -> "HEADER_SEND_ERROR"
      [] part = "body" -> "BODY_SEND_ERROR"
      [] OTHER -> "FILE_SEND_ERROR"

\* if (errno == EINTR) continue;   and, in sendFileStream,
\* if (errno == EAGAIN || errno == EINTR) continue;
RetriesAlways(part, errno) == TRUE

Retries(part, errno) ==
    errno = "EINTR" \/ (part = "file" /\ errno = "EAGAIN")

\* The branch for bytesSent <= 0, with errno as it stands after the call.
AfterFailedSend(ret, errno) ==
    [sendLoop EXCEPT !.errno = errno, !.last = ret,
                     !.result = IF Retries(sendLoop.part, errno) THEN "running"
                                ELSE SendErrorOf(sendLoop.part)]

SendUnchanged ==
    UNCHANGED <<mem, handlerEnv, pathCap, reqs, wire, delivered, shortReads,
                nReads, buffer, bufferSize, readOffset, parseOffset, base, pc,
                httpInfo, headerSize, totalRequestSize, decodedPath,
                normalizedPath, response, sendResult, resps>>

\* The call takes k bytes: remaining -= k, sentOffset += k (sendfile moves
\* its offset itself).
SendAccepts ==
    /\ AtSend
    /\ \E k \in 1..Sendable :
          /\ out' = out \o SubSeq(buffer, sendLoop.sentOffset + 1,
                                  sendLoop.sentOffset + k)
          /\ sendLoop' = [sendLoop EXCEPT !.sentOffset = @ + k,
                                          !.remaining = @ - k,
                                          !.last = "sent"]
    /\ SendUnchanged

\* The call fails and sets errno.
SendFails ==
    /\ AtSend
    /\ \E e \in {"EINTR", "EAGAIN", "EPIPE"} :
          sendLoop' = AfterFailedSend("failed", e)
    /\ UNCHANGED out
    /\ SendUnchanged

\* The call returns 0 and leaves errno as it was: send on a socket that
\* takes nothing, sendfile at the end of a file shorter than fileSize.
SendReturnsZero ==
    /\ AtSend
    /\ sendLoop.part = "file" => Sendable <= 0
    /\ sendLoop' = AfterFailedSend("zero", sendLoop.errno)
    /\ UNCHANGED out
    /\ SendUnchanged

\* remaining is 0: return Ok.
SendDone ==
    /\ pc = "send"
    /\ sendLoop.result = "running"
    /\ sendLoop.remaining = 0
    /\ sendLoop' = [sendLoop EXCEPT !.result = "Ok"]
    /\ UNCHANGED out
    /\ SendUnchanged

SendNext ==
    \/ SendAccepts
    \/ SendFails
    \/ SendReturnsZero
    \/ SendDone

SendSpec == SendInit /\ [][SendNext]_vars

(***************************************************************************)
(* What the claims speak of.                                               *)
(***************************************************************************)
\* The request the peer wrote at position i of the connection.
Template(i) == Menu[reqs[i]]

\* httpInfo holds the parser's answer for request i of the connection.
Parsed(i) ==
    /\ i > 0
    /\ CurReq = i
    /\ httpInfo.result # "OK" \/ pc \in {"size", "decode", "normalize", "route"}

\* The peer's bytes all came with the first read().
OneRead == nReads = 1 /\ delivered = Len(wire)

\* Every send so far took all the bytes it was given.
AllWritten == \A i \in 1..Len(resps) : resps[i].written = resps[i].total

\* The number a header value spells in decimal.
RECURSIVE DecValue(_)
DecValue(s) ==
    IF s = <<>> THEN 0
    ELSE DecValue(SubSeq(s, 1, Len(s) - 1)) * 10 + (s[Len(s)] - 48)

\* The Content-Length headers of a request, whatever the case of the name.
ContentLengthHeaders(r) ==
    {k \in 1..Len(r.headers) :
        /\ Len(r.headers[k].name) = 14
        /\ StrncasecmpEq(r.headers[k].name, 0, ContentLength_, 14)}

\* The request has a Connection header whose value contains "close".
AsksClose(r) ==
    \E k \in 1..Len(r.headers) :
        /\ Len(r.headers[k].name) = 10
        /\ StrncasecmpEq(r.headers[k].name, 0, Connection_, 10)
        /\ strcasestr_len(r.headers[k].value, 0, Len(r.headers[k].value), close_)

SendErrors == {"HEADER_SEND_ERROR", "BODY_SEND_ERROR", "FILE_SEND_ERROR"}

\* Two header-less 'GET /api/ HTTP/1.1' requests, back to back, were read
\* in one read() and the driver is done with the connection.
C1_Case == reqs = <<1, 1>> /\ OneRead /\ pc = "closed"

\* C1, as the code has it: two back-to-back header-less 'GET /api/ HTTP/1.1'
\* requests that arrive in one read get one response, the 400 'Missing
\* Required Headers' error with Connection: close, for the first request;
\* the connection is closed and the second request is never answered.
C1_HeaderlessPairGets400 ==
    C1_Case =>
        /\ Len(resps) = 1
        /\ resps[1].kind = "error"
        /\ resps[1].status = 400
        /\ resps[1].req = 1
        /\ resps[1].conn = "close"
        /\ httpInfo.result = "MISSING_REQUIRED_HEADERS"
        /\ out = SubSeq(ErrorResponse("MISSING_REQUIRED_HEADERS"), 1,
                        resps[1].written)

\* C1's case: the pair was read at once and the 400 went out whole.
C1_Witness ==
    /\ C1_Case
    /\ out = ErrorResponse("MISSING_REQUIRED_HEADERS")

\* C1, as the specification has it: two back-to-back header-less
\* 'GET /api/ HTTP/1.1' requests that arrive in one read produce exactly two
\* 200 responses with body 'Hello', in request order.
C1_HeaderlessPairGetsTwoHello ==
    (C1_Case /\ AllWritten) =>
        /\ Len(resps) = 2
        /\ \A i \in 1..2 : /\ resps[i].kind = "routed"
                           /\ resps[i].status = 200
                           /\ resps[i].req = i
        /\ SubSeq(out, Len(out) - 4, Len(out)) = Hello_

\* C2: no byte of response N+1 is written before every byte of response N
\* has been written.
C2_ResponsesInOrder ==
    \A i \in 1..Len(resps) : \A j \in 1..Len(resps) :
        (i < j /\ resps[j].written > 0) => resps[i].written = resps[i].total

\* C3: when sendResponse returns HEADER_SEND_ERROR, BODY_SEND_ERROR or
\* FILE_SEND_ERROR the driver closes the connection and writes nothing
\* further, whatever the keep-alive flag and the requests still buffered.
C3_SendErrorCloses ==
    \A i \in 1..Len(resps) :
        (resps[i].kind = "routed" /\ resps[i].result \in SendErrors) =>
            (i = Len(resps) /\ pc = "closed")

\* C4: a response's Connection header is 'close' exactly when the request
\* is HTTP/1.0, or its Connection header value contains 'close' (whatever
\* the case), or the response is one of the server's error responses;
\* otherwise it is 'keep-alive'.
C4_ConnectionHeader ==
    \A i \in 1..Len(resps) :
        (resps[i].kind # "routed" \/ resps[i].req > 0) =>
            /\ resps[i].conn \in {"close", "keep-alive"}
            /\ resps[i].conn = "close" <=>
                  \/ resps[i].kind # "routed"
                  \/ Template(resps[i].req).version = B_HTTP10
                  \/ AsksClose(Template(resps[i].req))

\* One run of requestHandler and sendResponse: the response carries the
\* request's keep-alive flag, inverted into shouldClose, whatever its
\* status, and the driver closes exactly when the flag is 0.
C5_RouteStep ==
    (pc = "route" /\ pc' # "route") =>
        /\ response'.statusCode \in {200, 403, 404, 405, 500}
        /\ response'.shouldClose = (IF httpInfo.isKeepAlive = 0 THEN 1 ELSE 0)
        /\ pc' \in {"closed", "frame"}
        /\ pc' = "closed" <=> httpInfo.isKeepAlive = 0
        /\ resps'[Len(resps')].conn =
              (IF httpInfo.isKeepAlive = 0 THEN "close" ELSE "keep-alive")

\* A closed connection stays as it is.
C5_ClosedStays ==
    pc = "closed" => UNCHANGED <<pc, out, resps, httpInfo, parseOffset>>

\* A routed response that says close is the connection's last response.
C5_CloseIsLast ==
    \A i \in 1..Len(resps) :
        (resps[i].kind = "routed" /\ resps[i].conn = "close") =>
            (i = Len(resps) /\ pc = "closed")

\* C5: after a routed response the driver closes the connection exactly
\* when the request's keep-alive flag is false; the router copies the flag
\* into the response unchanged for every outcome (200, 403, 404, 405, 500);
\* once closed, no later buffered request is parsed or answered.
C5_KeepAliveDecidesClose ==
    /\ [][C5_RouteStep /\ C5_ClosedStays]_vars
    /\ []C5_CloseIsLast

\* C5's case: a 'Connection: Close' request was answered 200 and the
\* connection closed while the request pipelined behind it sits unparsed
\* in the buffer.
C5_Witness ==
    /\ reqs = <<3, 2>>
    /\ pc = "closed"
    /\ httpInfo.isKeepAlive = 0
    /\ response.statusCode = 200
    /\ response.shouldClose = 1
    /\ Len(resps) = 1
    /\ resps[1].kind = "routed"
    /\ resps[1].conn = "close"
    /\ resps[1].written = resps[1].total
    /\ readOffset > parseOffset + totalRequestSize

\* C6: a request whose version token is exactly 'HTTP/1.0' is accepted
\* (the parser answers OK) with the keep-alive flag false.
C6_Http10Accepted ==
    \A i \in 1..Len(reqs) :
        (Parsed(i) /\ Template(i).version = B_HTTP10) =>
            (httpInfo.result = "OK" /\ httpInfo.isKeepAlive = 0)

\* C7: the parser answers INVALID_VERSION for every version token that is
\* not exactly 'HTTP/1.1' or 'HTTP/1.0', whatever its length.
C7_OtherVersionsRejected ==
    \A i \in 1..Len(reqs) :
        (Parsed(i) /\ Template(i).version \notin {B_HTTP11, B_HTTP10}) =>
            httpInfo.result = "INVALID_VERSION"

\* C8: the parser answers OK only when the request line splits into three
\* non-empty tokens: method, target and version.
C8_ThreeNonEmptyTokens ==
    \A i \in 1..Len(reqs) :
        (Parsed(i) /\ httpInfo.result = "OK") =>
            /\ httpInfo.method.len > 0
            /\ httpInfo.path.len > 0
            /\ httpInfo.version.len > 0

\* C9: a request with two Content-Length headers, whatever the case of
\* their names, is rejected with INVALID_CONTENT_LENGTH.
C9_DuplicateContentLengthRejected ==
    \A i \in 1..Len(reqs) :
        (Parsed(i) /\ Cardinality(ContentLengthHeaders(Template(i))) >= 2) =>
            httpInfo.result = "INVALID_CONTENT_LENGTH"

\* The number the one Content-Length header of request i declares.
Declared(i) ==
    LET r == Template(i)
    IN  DecValue(r.headers[CHOOSE k \in ContentLengthHeaders(r) : TRUE].value)

\* C10: a Content-Length larger than size_t holds is rejected with
\* INVALID_CONTENT_LENGTH; an accepted content length is the declared one,
\* never a wrapped value; and headerSize + contentLength never wraps.
C10_ContentLengthNeverWraps ==
    \A i \in 1..Len(reqs) :
        (Parsed(i) /\ Cardinality(ContentLengthHeaders(Template(i))) = 1) =>
            /\ Declared(i) >= SizeMod => httpInfo.result = "INVALID_CONTENT_LENGTH"
            /\ httpInfo.result = "OK" =>
                  /\ httpInfo.contentLength = Declared(i)
                  /\ pc \in {"size", "decode", "normalize", "route"} =>
                        /\ headerSize + httpInfo.contentLength < SizeMod
                        /\ totalRequestSize = headerSize + httpInfo.contentLength

\* The header lines of a request that are sent as "name: value" with this
\* name, whatever the case.
HeadersNamed(r, name) ==
    {k \in 1..Len(r.headers) :
        /\ ~r.headers[k].raw
        /\ Len(r.headers[k].name) = Len(name)
        /\ StrncasecmpEq(r.headers[k].name, 0, name, Len(name))}

\* The digits of a byte string, in order.
Digits(v) == SelectSeq(v, LAMBDA c : isdigit(c))

\* The value of the one Content-Length header of request i.
ContentLengthValue(i) ==
    LET r == Template(i)
    IN  r.headers[CHOOSE k \in ContentLengthHeaders(r) : TRUE].value

\* C11: a Content-Length value with a byte that is neither an ASCII digit
\* nor a carriage return makes the parser fail with INVALID_CONTENT_LENGTH;
\* otherwise contentLength is the decimal value of the digits.
C11_ContentLengthValue ==
    \A i \in 1..Len(reqs) :
        (Parsed(i) /\ Cardinality(ContentLengthHeaders(Template(i))) = 1) =>
            IF \E j \in 1..Len(ContentLengthValue(i)) :
                  ~isdigit(ContentLengthValue(i)[j]) /\ ContentLengthValue(i)[j] # 13
            THEN httpInfo.result = "INVALID_CONTENT_LENGTH"
            ELSE /\ httpInfo.result # "INVALID_CONTENT_LENGTH"
                 /\ httpInfo.contentLength = DecValue(Digits(ContentLengthValue(i)))

\* C12: a request with a Transfer-Encoding header, whatever its value, makes
\* the parser fail with UNSUPPORTED_TRANSFER_ENCODING, and the driver
\* answers 501 with Connection: close and closes the connection.
C12_TransferEncodingRejected ==
    /\ \A i \in 1..Len(reqs) :
          (Parsed(i) /\ HeadersNamed(Template(i), B_TransferEncoding) # {}) =>
              /\ httpInfo.result = "UNSUPPORTED_TRANSFER_ENCODING"
              /\ pc = "closed"
    /\ \A j \in 1..Len(resps) :
          (resps[j].req > 0
           /\ HeadersNamed(Template(resps[j].req), B_TransferEncoding) # {}) =>
              /\ resps[j].status = 501
              /\ resps[j].conn = "close"

\* C13: the parser never stores more than MAX_HEADERS header entries, and
\* a request with more header lines than that fails with TOO_MANY_HEADERS.
C13_HeaderCountBounded ==
    \A i \in 1..Len(reqs) :
        Parsed(i) =>
            /\ Len(httpInfo.headers) <= MAX_HEADERS
            /\ httpInfo.headerCnt <= MAX_HEADERS
            /\ Len(Template(i).headers) > MAX_HEADERS =>
                  httpInfo.result = "TOO_MANY_HEADERS"

\* The request has a header line without ':' or one that starts with ':'.
HasBadHeaderLine(r) ==
    \E k \in 1..Len(r.headers) :
        \/ r.headers[k].raw /\ \A j \in 1..Len(r.headers[k].name) :
                                   r.headers[k].name[j] # 58
        \/ ~r.headers[k].raw /\ r.headers[k].name = <<>>

\* C14: a header line with no ':' byte, or with an empty name, makes the
\* parser fail with BAD_HEADER_SYNTAX.
C14_BadHeaderLineRejected ==
    \A i \in 1..Len(reqs) :
        (Parsed(i) /\ HasBadHeaderLine(Template(i))) =>
            httpInfo.result = "BAD_HEADER_SYNTAX"

\* The percent-decoded target begins with "/api/" or is "/api".
DecodedIsApi(target) ==
    LET d == decodeUrl(target).path
    IN  \/ Len(d) >= 5 /\ SubSeq(d, 1, 5) = API_SLASH
        \/ d = API_

\* C15: for every accepted request, isApi is set exactly when the
\* percent-decoded target begins with '/api/' or equals '/api'.
C15_IsApiOfDecodedTarget ==
    \A i \in 1..Len(reqs) :
        (/\ Parsed(i)
         /\ httpInfo.result = "OK"
         /\ decodeUrl(Template(i).target).result = "OK") =>
            (httpInfo.isApi = 1 <=> DecodedIsApi(Template(i).target))

(***************************************************************************)
(* Reference definitions for the path claims.                              *)
(***************************************************************************)
\* The value of an ASCII hex digit, NULL for any other byte.
HexValue(c) ==
    CASE c \in 48..57 -> c - 48
      [] c \in 65..70 -> c - 55
      [] c \in 97..102 -> c - 87
      [] OTHER -> NULL

\* The reference decoder: '%' and two hex digits become one byte, any
\* other byte is copied, a '%' without two hex digits is an error.
RECURSIVE RefDecode(_)
RefDecode(p) ==
    IF p = <<>> THEN [ok |-> TRUE, path |-> <<>>]
    ELSE IF p[1] # 37
    THEN LET r == RefDecode(Tail(p))
         IN  [ok |-> r.ok, path |-> <<p[1]>> \o r.path]
    ELSE IF Len(p) >= 3 /\ HexValue(p[2]) # NULL /\ HexValue(p[3]) # NULL
    THEN LET r == RefDecode(SubSeq(p, 4, Len(p)))
         IN  [ok |-> r.ok,
              path |-> <<HexValue(p[2]) * 16 + HexValue(p[3])>> \o r.path]
    ELSE [ok |-> FALSE, path |-> <<>>]

\* The segments of a path: the byte strings between its '/' bytes.
RECURSIVE RefSplit(_)
RefSplit(p) ==
    LET slashes == {j \in 1..Len(p) : p[j] = 47}
    IN  IF slashes = {} THEN <<p>>
        ELSE LET j == CHOOSE x \in slashes : \A y \in slashes : x <= y
             IN  <<SubSeq(p, 1, j - 1)>> \o RefSplit(SubSeq(p, j + 1, Len(p)))

\* The segment stack: empty and "." segments are skipped, ".." pops (an
\* error when the stack is empty), any other segment is pushed.
RECURSIVE RefStack(_, _)
RefStack(segs, stack) ==
    IF segs = <<>> THEN [ok |-> TRUE, stack |-> stack]
    ELSE IF segs[1] = <<>> \/ segs[1] = <<46>>
    THEN RefStack(Tail(segs), stack)
    ELSE IF segs[1] = <<46, 46>>
    THEN IF stack = <<>> THEN [ok |-> FALSE, stack |-> stack]
         ELSE RefStack(Tail(segs), SubSeq(stack, 1, Len(stack) - 1))
    ELSE RefStack(Tail(segs), Append(stack, segs[1]))

\* The stack's segments joined by single '/', after the root.
RefJoin(stack) == IF stack = <<>> THEN <<47>> ELSE <<47>> \o JoinSegs(stack)

\* decodeUrl returned OK for the target in buffer.
PathWasDecoded == pc \in {"path_decoded", "path_normalized", "path_bad_path"}

\* C16: decodeUrl agrees with the reference decoder on every target: it
\* fails with BAD_REQUEST_PATH exactly when some '%' is not followed by two
\* hex digits, otherwise its output is the reference output, no longer
\* than the target, and the target itself when the target has no '%'.
C16_DecodeAgreesWithReference ==
    /\ PathWasDecoded =>
          /\ RefDecode(buffer).ok
          /\ decodedPath = RefDecode(buffer).path
          /\ Len(decodedPath) <= Len(buffer)
          /\ (\A j \in 1..Len(buffer) : buffer[j] # 37) => decodedPath = buffer
    /\ pc = "path_bad_target" =>
          /\ ~RefDecode(buffer).ok
          /\ httpInfo.result = "BAD_REQUEST_PATH"

\* C16's case: the target '/%2E' was decoded to '/.'.
C16_Witness ==
    /\ pc = "path_decoded"
    /\ buffer = <<47, 37, 50, 69>>
    /\ decodedPath = <<47, 46>>

\* A path has an empty segment: a doubled '/', or a trailing '/' that is
\* not the root itself.
HasEmptySegment(q) ==
    \/ \E j \in 1..(Len(q) - 1) : q[j] = 47 /\ q[j + 1] = 47
    \/ Len(q) > 1 /\ q[Len(q)] = 47

\* C17: normalization is idempotent: when normalizePath succeeds with
\* output q, normalizePath of q succeeds with output q, and q has no empty
\* segment.
C17_NormalizeIdempotent ==
    pc = "path_normalized" =>
        /\ normalizePath(normalizedPath, pathCap) =
              [result |-> "OK", path |-> normalizedPath]
        /\ ~HasEmptySegment(normalizedPath)

\* C18: when normalizePath succeeds, its output starts with '/' and none
\* of its segments is '.' or '..'.
C18_NoDotSegments ==
    pc = "path_normalized" =>
        /\ Len(normalizedPath) >= 1
        /\ normalizedPath[1] = 47
        /\ \A k \in 1..Len(RefSplit(normalizedPath)) :
              RefSplit(normalizedPath)[k] \notin {<<46>>, <<46, 46>>}

\* C18's case: '/./a/../a' was normalized, to '/a'.
C18_Witness ==
    /\ pc = "path_normalized"
    /\ decodedPath = <<47, 46, 47, 97, 47, 46, 46, 47, 97>>
    /\ normalizedPath = <<47, 97>>

\* C19: normalizePath agrees with the segment stack: given room for the
\* output, it fails with BAD_REQUEST_PATH exactly when a '..' meets the
\* empty stack, and otherwise its output is the stack's segments joined by
\* single '/'.
C19_NormalizeAgreesWithStack ==
    (pc \in {"path_normalized", "path_bad_path"} /\ pathCap = BUFFER_SIZE) =>
        LET r == RefStack(RefSplit(decodedPath), <<>>)
        IN  IF r.ok
            THEN pc = "path_normalized" /\ normalizedPath = RefJoin(r.stack)
            ELSE pc = "path_bad_path" /\ httpInfo.result = "BAD_REQUEST_PATH"

\* A target whose decoded form climbs above the root.
Escapes(target) ==
    /\ RefDecode(target).ok
    /\ ~RefStack(RefSplit(RefDecode(target).path), <<>>).ok

\* C20: the driver decodes before it normalizes: a request for
\* '/%2e%2e/x' or '/%2e%2e' is answered 400 and never reaches
\* requestHandler, and '/a/%2e%2e/b' reaches it with the path '/b'.
C20_DecodeBeforeNormalize ==
    /\ \A i \in 1..Len(reqs) :
          (CurReq = i /\ Escapes(Template(i).target)) =>
              pc \notin {"route", "crashed"}
    /\ \A j \in 1..Len(resps) :
          (/\ resps[j].req > 0
           /\ Escapes(Template(resps[j].req).target)) =>
              (resps[j].kind = "error" /\ resps[j].status = 400)
    /\ \A i \in 1..Len(reqs) :
          (CurReq = i /\ Template(i).target = B_aEscB /\ pc = "route") =>
              normalizedPath = <<47, 98>>
    /\ \A j \in 1..Len(resps) :
          (resps[j].req > 0 /\ Template(resps[j].req).target = B_aEscB) =>
              resps[j].kind = "routed"

(***************************************************************************)
(* requestHandler claims, stated over HandlerSpec.                         *)
(***************************************************************************)
\* requestHandler has returned; the method and body it was given.
Handled == pc = "handled"
HandledMethod == Bytes(buffer, httpInfo.method)
HandledBody == Bytes(buffer, httpInfo.body)

\* The response carries the in-memory body bytes as text/plain with the
\* given status, and no file.
InMemory(r, code, bytes) ==
    /\ r.statusCode = code
    /\ r.bodyLen = Len(bytes)
    /\ SubSeq(r.body, 1, r.bodyLen) = bytes
    /\ r.contentType = textPlain_
    /\ r.fileDescriptor = NULL

\* C21: requestHandler implements the routing table: API GET '/' gives 200
\* 'Hello', API POST '/echo' gives 200 with the request body, API GET or
\* POST elsewhere gives 404 'Route Not Found', any other method (for a
\* non-API request: any method but GET) gives 405, and non-API GET is
\* answered by the static file handler; matches are exact.  Stated for
\* the case that the body allocation succeeds.
C21_RoutingTable ==
    (Handled /\ handlerEnv.bodyMalloc) =>
        LET api == httpInfo.isApi # 0
            m == HandledMethod
        IN  /\ (api /\ m = <<71, 69, 84>> /\ normalizedPath = <<47>>) =>
                  InMemory(response, 200, <<72, 101, 108, 108, 111>>)
            /\ (api /\ m = <<80, 79, 83, 84>>
                    /\ normalizedPath = <<47, 101, 99, 104, 111>>) =>
                  InMemory(response, 200, HandledBody)
            /\ (api /\ m = <<71, 69, 84>> /\ normalizedPath # <<47>>) =>
                  InMemory(response, 404, RouteNotFound_)
            /\ (api /\ m = <<80, 79, 83, 84>>
                    /\ normalizedPath # <<47, 101, 99, 104, 111>>) =>
                  InMemory(response, 404, RouteNotFound_)
            /\ (api /\ m \notin {<<71, 69, 84>>, <<80, 79, 83, 84>>}) =>
                  InMemory(response, 405, MethodUnsupported_)
            /\ (~api /\ m # <<71, 69, 84>>) =>
                  InMemory(response, 405, MethodUnsupported_)
            /\ (~api /\ m = <<71, 69, 84>>) =>
                  response = fileHandler(initializeResponse(httpInfo),
                                         normalizedPath, handlerEnv)

\* C21's case: an API POST to '/echo' with body 'ab' was answered 200 'ab'.
C21_Witness ==
    /\ Handled
    /\ httpInfo.isApi = 1
    /\ HandledMethod = <<80, 79, 83, 84>>
    /\ normalizedPath = <<47, 101, 99, 104, 111>>
    /\ response.statusCode = 200
    /\ response.body = <<97, 98>>

\* fileHandler ran and every allocation it made succeeded.
FileHandled ==
    /\ Handled
    /\ httpInfo.isApi = 0
    /\ HandledMethod = <<71, 69, 84>>
    /\ handlerEnv.relMalloc
    /\ handlerEnv.idxRealloc
    /\ handlerEnv.bodyMalloc

Served == Handled /\ response.fileDescriptor # NULL

\* The name fileHandler opened, as openat reads it; the empty name is
\* index.html.
ServedName ==
    LET rel == SubSeq(normalizedPath, 2, Len(normalizedPath))
        nuls == {k \in 1..Len(rel) : rel[k] = 0}
        cut == IF nuls = {} THEN rel
               ELSE SubSeq(rel, 1, (CHOOSE k \in nuls : \A j \in nuls : k <= j) - 1)
    IN  IF cut = <<>> THEN indexHtml_ ELSE cut

\* The bytes after the last '.' of a name that has one.
HasDot(name) == \E k \in 1..Len(name) : name[k] = 46
Extension(name) ==
    LET k == CHOOSE i \in 1..Len(name) :
                 name[i] = 46 /\ \A j \in (i + 1)..Len(name) : name[j] # 46
    IN  SubSeq(name, k + 1, Len(name))

\* The extension table for a name with a dot.
TypeOfExtension(ext) ==
    CASE ext = <<104, 116, 109, 108>> -> textHtml_
      [] ext = <<99, 115, 115>> -> textCss_
      [] ext = <<106, 115>> -> appJs_
      [] ext = <<112, 110, 103>> -> imagePng_
      [] OTHER -> textPlain_

C24_OnePayload ==
    (Handled /\ response.fileDescriptor # NULL) =>
        /\ response.bodyLen = 0
        /\ response.body = <<>>
        /\ ~response.bodyAllocated
        /\ response.statusCode = 200

\* C24's case: a three-byte file is served.
C24_Witness ==
    /\ Served
    /\ response.fileSize = 3
    /\ response.statusCode = 200
    /\ response.bodyLen = 0

(***************************************************************************)
(* Driver claims, stated over Spec.                                        *)
(***************************************************************************)
\* The bytes of response j that the socket accepted.
RECURSIVE WrittenBefore(_)
WrittenBefore(j) == IF j <= 1 THEN 0 ELSE WrittenBefore(j - 1) + resps[j - 1].written
RespBytes(j) == SubSeq(out, WrittenBefore(j) + 1, WrittenBefore(j) + resps[j].written)

\* Its payload: what follows the first empty line.
RespPayload(j) ==
    LET bytes == RespBytes(j)
        headEnd == strstr(bytes, 0, CRLFCRLF)
    IN  IF headEnd = NULL THEN <<>> ELSE SubSeq(bytes, headEnd + 5, Len(bytes))

\* Its header block holds the header line name: value.
RespHasHeader(j, name, value) ==
    LET bytes == RespBytes(j)
        headEnd == strstr(bytes, 0, CRLFCRLF)
    IN  /\ headEnd # NULL
        /\ StrstrFrom(bytes, 0, <<13, 10>> \o name \o <<58, 32>> \o value \o <<13, 10>>,
                      headEnd + 2) # NULL

\* A POST to /api/echo whose one Content-Length header spells the length of
\* its body.
IsEchoRequest(r) ==
    /\ r.method = <<80, 79, 83, 84>>
    /\ r.target = <<47, 97, 112, 105, 47, 101, 99, 104, 111>>
    /\ r.version = B_HTTP11
    /\ \A k \in 1..Len(r.headers) : ~r.headers[k].raw
    /\ Cardinality(ContentLengthHeaders(r)) = 1
    /\ \A k \in ContentLengthHeaders(r) : r.headers[k].value = ToDec(Len(r.body))

\* C25: a POST to /api/echo with Content-Length |b| and body b yields a 200
\* response whose Content-Length is |b| and whose body is b, however the
\* bytes are split over reads: the driver does not die on the request, it
\* answers it with no error response of its own, and the response, unless
\* the body allocation failed, is that 200.
C25_EchoReturnsBody ==
    /\ \A i \in 1..Len(reqs) :
          (CurReq = i /\ IsEchoRequest(Template(i))) => pc # "crashed"
    /\ \A j \in 1..Len(resps) :
          (resps[j].req > 0 /\ IsEchoRequest(Template(resps[j].req))) =>
              /\ resps[j].kind = "routed"
              /\ resps[j].status \in {200, 500}
              /\ (resps[j].status = 200 /\ resps[j].written = resps[j].total) =>
                    /\ RespPayload(j) = Template(resps[j].req).body
                    /\ RespHasHeader(j, ContentLength_,
                                     ToDec(Len(Template(resps[j].req).body)))

\* C26: when a request's total size exceeds the capacity, the driver grows
\* the buffer to total size + 1 unless that would exceed MAX_REQUEST_LIMIT,
\* and then it sends a 413 with Connection: close and closes without
\* dispatching the request.  (A failed realloc closes with its 500.)
C26_GrowOr413 ==
    [][(pc = "size" /\ totalRequestSize > bufferSize) =>
          IF totalRequestSize + 1 > MAX_REQUEST_LIMIT
          THEN /\ pc' = "closed"
               /\ Len(resps') = Len(resps) + 1
               /\ resps'[Len(resps')].status = 413
               /\ resps'[Len(resps')].conn = "close"
          ELSE \/ bufferSize' = totalRequestSize + 1
               \/ /\ pc' = "closed"
                  /\ Len(resps') = Len(resps) + 1
                  /\ resps'[Len(resps')].status = 500]_vars

\* C27: after every driver step the cursors satisfy
\* 0 <= parseOffset <= readOffset <= bufferSize <= MAX_REQUEST_LIMIT, and
\* the capacity starts at BUFFER_SIZE.
C27_CursorOrder ==
    /\ 0 <= parseOffset
    /\ parseOffset <= readOffset
    /\ readOffset <= bufferSize
    /\ bufferSize <= MAX_REQUEST_LIMIT
    /\ nReads = 0 => bufferSize = 4096

\* C28: the driver forms the body view and goes on to the router only when
\* readOffset >= parseOffset + headerSize + contentLength: every byte of
\* the body view is among the bytes read.
C28_BodyViewInsideRead ==
    pc \in {"decode", "normalize", "route"} =>
        /\ readOffset >= parseOffset + headerSize + httpInfo.contentLength
        /\ httpInfo.body.off = parseOffset + headerSize
        /\ httpInfo.body.off + httpInfo.body.len <= readOffset

\* The 408 response, byte for byte.
Timeout408 ==
    <<72, 84, 84, 80, 47, 49, 46, 49, 32, 52, 48, 56, 32,
      82, 101, 113, 117, 101, 115, 116, 32, 84, 105, 109, 101, 111, 117, 116, 13, 10,
      67, 111, 110, 116, 101, 110, 116, 45, 76, 101, 110, 103, 116, 104, 58, 32, 48, 13, 10,
      67, 111, 110, 110, 101, 99, 116, 105, 111, 110, 58, 32, 99, 108, 111, 115, 101,
      13, 10, 13, 10>>

C30_DriverErrorsStatusOnly ==
    \A j \in 1..Len(resps) :
        resps[j].kind # "routed" =>
            /\ j = Len(resps)
            /\ pc = "closed"
            /\ resps[j].conn = "close"
            /\ resps[j].written = resps[j].total =>
                  /\ RespPayload(j) = <<>>
                  /\ RespHasHeader(j, ContentLength_, <<48>>)
                  /\ RespHasHeader(j, Connection_, close_)

(***************************************************************************)
(* Resources, send loops and the buffer.                                   *)
(***************************************************************************)
\* C31: on every path through sendResponse each resource the response owns
\* is released exactly once: the descriptor is closed, and every body the
\* router allocated, also one for a body of length zero, is freed.
\* Stated over HandlerSpec.
C31_ResponseResourcesReleasedOnce ==
    pc = "sent" =>
        /\ mem.wrongFrees = 0
        /\ response.openedFd # NULL => mem.fd = "closed"
        /\ response.bodyAllocated => mem.body = "freed"

\* The driver has the whole request in its buffer and has not answered it.
Framed == pc \in {"decode", "normalize", "route"}

\* C32: every request the driver has fully framed gets exactly one response
\* written, the routed one or an error response, on every path.
C32_OneResponsePerFramedRequest ==
    [][/\ (Framed /\ Framed') => resps' = resps
       /\ (Framed /\ ~Framed') => Len(resps') = Len(resps) + 1]_vars

\* The loop is sendHeaders' or sendBody's.
ToSocket == sendLoop.part \in {"headers", "body"}

\* The step is a call of the loop that returned ret.
Returned(ret) == sendLoop' # sendLoop /\ sendLoop'.last = ret

\* C33: sendHeaders and sendBody deliver the bytes once and in order under
\* any short writes and EINTR: after a send that took k bytes the next
\* starts k further, Ok is returned only when all bytes were taken, and an
\* error is returned when send fails with a non-transient error or
\* returns 0.  Stated over SendSpec.
C33_SendLoopDeliversOrFails ==
    /\ [](ToSocket =>
            /\ out = SubSeq(buffer, 1, sendLoop.sentOffset)
            /\ sendLoop.sentOffset + sendLoop.remaining = sendLoop.len
            /\ sendLoop.result = "Ok" => out = buffer)
    /\ [][(ToSocket /\ (Returned("zero")
                        \/ (Returned("failed") /\ sendLoop'.errno = "EPIPE")))
             => sendLoop'.result = SendErrorOf(sendLoop.part)]_vars

\* C34: sendFileStream returns Ok only after exactly fileSize bytes were
\* sent, retries only on EAGAIN and EINTR, and returns FILE_SEND_ERROR when
\* sendfile returns 0 (the file became shorter than fileSize) or fails with
\* another error.  Stated over SendSpec.
C34_FileStreamEnds ==
    /\ []((sendLoop.part = "file" /\ sendLoop.result = "Ok") =>
             /\ Len(out) = sendLoop.len
             /\ out = SubSeq(buffer, 1, sendLoop.len))
    /\ [][(sendLoop.part = "file" /\ Returned("failed")
             /\ sendLoop'.result = "running")
             => sendLoop'.errno \in {"EAGAIN", "EINTR"}]_vars
    /\ [][(sendLoop.part = "file"
             /\ (Returned("zero")
                 \/ (Returned("failed") /\ sendLoop'.errno = "EPIPE")))
             => sendLoop'.result = "FILE_SEND_ERROR"]_vars

\* C35: the shift at the end of the outer loop keeps the unconsumed bytes:
\* the bytes at [0, remaining) are those that were at [parseOffset,
\* readOffset), parseOffset is 0 and readOffset is remaining; with
\* parseOffset 0 the buffer is as it was.
C35_ShiftKeepsUnconsumedBytes ==
    [][(pc \in {"frame", "size"} /\ pc' = "read") =>
          /\ SubSeq(buffer', 1, readOffset - parseOffset)
                = SubSeq(buffer, parseOffset + 1, readOffset)
          /\ parseOffset' = 0
          /\ readOffset' = readOffset - parseOffset
          /\ parseOffset = 0 => buffer' = buffer]_vars

\* C35's case: a request was answered, the bytes behind it were moved to
\* the front, and they are the peer's bytes from there on.
C35_Witness ==
    /\ pc = "read"
    /\ base > 0
    /\ readOffset > 0
    /\ Len(resps) > 0
    /\ buffer = SubSeq(wire, base + 1, base + readOffset)

\* The view lies within the bytes read.
ViewInside(v) == v.off >= 0 /\ v.off + v.len <= readOffset

\* requestHandler copies the body: the echo route, when malloc gives it room.
BodyIsCopied ==
    /\ httpInfo.isApi # 0
    /\ IsMethod(buffer, httpInfo, POST_)
    /\ MallocCanSucceed(httpInfo.body.len)

\* C36: no view of the parser is read after the buffer was reallocated or
\* shifted: from the parse of a request to the last use of its views there
\* is no realloc and no shift, and each view lies within [0, readOffset)
\* when it is used.
C36_ViewsUsedWhileValid ==
    Framed =>
        /\ ~mem.moved
        /\ ViewInside(httpInfo.method)
        /\ ViewInside(httpInfo.path)
        /\ ViewInside(httpInfo.version)
        /\ \A k \in 1..Min(Len(httpInfo.headers), MAX_HEADERS) :
              /\ ViewInside(httpInfo.headers[k].key)
              /\ ViewInside(httpInfo.headers[k].value)
        /\ (pc = "route" /\ BodyIsCopied) => ViewInside(httpInfo.body)

\* C36's case: the buffer was reallocated for this request, the request was
\* parsed again from the new buffer, and its body is about to be echoed.
C36_Witness ==
    /\ pc = "route"
    /\ bufferSize > BUFFER_SIZE
    /\ BodyIsCopied
    /\ httpInfo.body.len > 0

\* The target has a percent-encoded NUL.
HasEncodedNul(t) ==
    \E k \in 1..(Len(t) - 2) : t[k] = 37 /\ t[k + 1] = 48 /\ t[k + 2] = 48

\* C37: no request whose target holds %00 makes the static file handler
\* open, or choose the content type of, the requested name cut at the NUL:
\* the target is rejected or handled with its whole decoded length.
C37_NoNulTruncation ==
    (/\ pc = "closed"
     /\ Len(resps) > 0
     /\ resps[Len(resps)].kind = "routed"
     /\ resps[Len(resps)].req > 0
     /\ HasEncodedNul(Template(resps[Len(resps)].req).target)
     /\ response.fileDescriptor # NULL) =>
        /\ RelativePath(normalizedPath)
              = SubSeq(normalizedPath, 2, Len(normalizedPath))
        /\ response.contentType
              = getFileType(SubSeq(normalizedPath, 2, Len(normalizedPath)))

\* C38: the decoded and the normalized path buffer of a request are
\* released exactly once on every exit path of the driver: none is held
\* when the driver leaves or turns to the next request, none is freed twice.
C38_PathBuffersReleasedOnce ==
    /\ mem.wrongFrees = 0
    /\ mem.leaks = 0
    /\ pc = "closed" =>
          /\ mem.decodedPath \in {"NULL", "freed"}
          /\ mem.normalizedPath \in {"NULL", "freed"}
    /\ pc \in {"read", "frame", "size", "decode"} =>
          /\ mem.decodedPath = "NULL"
          /\ mem.normalizedPath = "NULL"

\* C38's case: both buffers were allocated for a request, the request was
\* answered with Connection: close, and the driver left.
C38_Witness ==
    /\ pc = "closed"
    /\ Len(resps) > 0
    /\ resps[Len(resps)].kind = "routed"
    /\ mem.decodedPath = "freed"
    /\ mem.normalizedPath = "freed"

\* C39: whenever the driver issues a read there is a free byte to read
\* into, bufferSize - 1 - readOffset > 0, so that a read of 0 means that
\* the peer closed and a request of at most MAX_REQUEST_LIMIT bytes that
\* the peer delivers is answered.
C39_ReadHasRoom ==
    pc = "read" => bufferSize - 1 - readOffset > 0

\* C40: after a request is answered parseOffset has advanced by exactly
\* headerSize + contentLength, so that the next request is framed from the
\* first byte after the body and no body byte is parsed as part of the
\* next request.
C40_RequestBoundaries ==
    [][(pc = "route" /\ pc' = "frame") =>
          /\ parseOffset' = parseOffset + headerSize + httpInfo.contentLength
          /\ \/ base + parseOffset' = Len(wire)
             \/ ReqIndexAt(reqs, base + parseOffset', 1) = CurReq + 1]_vars

=============================================================================
